---- MODULE Spec2Model ----
(***************************************************************************)
(* Model of the synthetics run orchestrator of datadog-ci:                 *)
(*   src/src/commands/synthetics/run-tests-lib.ts                          *)
(* and of other functions and commands of the repository, each under a     *)
(* specification of its own:                                               *)
(*   Spec           executeTests                                           *)
(*   SpecTrigger    getTriggerConfigs                                      *)
(*   SpecOverrides  validateAndParseOverrides                              *)
(*   SpecPoll       results skipped by selective rerun                     *)
(*   SpecMark       the deployment tags of DeploymentMarkCommand           *)
(*   SpecUpload     UploadCommand.execute of the dependencies upload       *)
(*   SpecCIEnv      getCIEnv                                               *)
(*   SpecReporter   AppUploadReporter                                      *)
(* executeTests is an async function; every `await` is a suspension point. *)
(* One action of the model is one awaited call together with the           *)
(* synchronous code that follows it up to the next awaited call.           *)
(*                                                                         *)
(* Conventions                                                             *)
(*   - `undefined` numbers are the number 0: the code only reads them      *)
(*     through `||`, for which undefined and 0 are both falsy; a timeout   *)
(*     that is set is any other number, and nothing in executeTests        *)
(*     rejects a negative one.                                             *)
(*   - an error is a record [class, forbidden, code, message]; forbidden   *)
(*     is what isForbiddenError(error) answers for it.                     *)
(*   - collaborators whose code is outside run-tests-lib.ts (the API       *)
(*     helper, getTestsToTrigger, runTests, waitForResults, Tunnel) are    *)
(*     nondeterministic: each call either returns a value of its result    *)
(*     type or throws.  tunnel.stop() is the teardown of section 4.3 of    *)
(*     the specification and resolves.                                     *)
(***************************************************************************)
EXTENDS Integers, Sequences, FiniteSets, TLC

VARIABLES
  pc,                        \* the await executeTests is suspended at
  config,                    \* RunTestsCommandConfig, after lines 68-74
  env,                       \* config.publicIds, config.defaultTestOverrides
  triggerConfigs,            \* let triggerConfigs (line 59)
  tests,                     \* testsToTriggerResult.tests
  overriddenTestsToTrigger,  \* testsToTriggerResult.overriddenTestsToTrigger
  tunnel,                    \* let tunnel (line 58)
  startedInfo,               \* what tunnel.start() resolved to
  trigger,                   \* let trigger (line 143)
  pending,                   \* completion waiting for `await stopTunnel()`
  outcome,                   \* how the promise of executeTests settled
  calls,                     \* the calls executeTests made, in order
  reporter,                  \* the calls made on the MainReporter
  raised,                    \* the call that threw, and what it threw
  fn,                        \* the function examined, outside executeTests
  arg,                       \* its argument
  ret                        \* what it has computed or returned so far

\* the state of a run of executeTests
runVars == <<pc, config, env, triggerConfigs, tests, overriddenTestsToTrigger,
             tunnel, startedInfo, trigger, pending, outcome, calls, reporter, raised>>

\* the state of the library functions examined on their own
libVars == <<fn, arg, ret>>

vars == <<runVars, libVars>>

----------------------------------------------------------------------------
(* Bounds of the model *)

MaxPublicIds == 1
MaxSearchResults == 1
MaxTestConfigs == 2

(* Values *)

Ids == {"a", "b"}
TunnelInfos == {"t1", "t2"}
BatchIds == {"batch1"}
OverrideTimeouts == {60, 120}
GlobalBatchTimeouts == {0, 100, -5}
GlobalPollingTimeouts == {0, 90}
OverrideKeys == {"pollingTimeout", "testTimeout"}
Undefined == 0
NoTunnel == "undefined"
DEFAULT_BATCH_TIMEOUT == 1800

SeqsUpTo(S, n) == UNION {[1..k -> S] : k \in 0..n}

----------------------------------------------------------------------------
(* Errors *)

NoError == [class |-> "", forbidden |-> FALSE, code |-> "", message |-> ""]

\* A plain error thrown by a collaborator: the backend answered 403, or it
\* could not be reached.
PlainErrors ==
  {[class |-> "Error", forbidden |-> TRUE, code |-> "", message |-> "forbidden"],
   [class |-> "Error", forbidden |-> FALSE, code |-> "", message |-> "unreachable"]}

\* A CiError thrown by getTestsToTrigger (failOnMissingTests).
CiErrorsThrown ==
  {[class |-> "CiError", forbidden |-> FALSE, code |-> "MISSING_TESTS",
    message |-> "missing"]}

\* The poll deadline was exceeded.
TimeoutErrors ==
  {[class |-> "BatchTimeoutRunawayError", forbidden |-> FALSE,
    code |-> "BATCH_TIMEOUT_RUNAWAY", message |-> "timeout"]}

CriticalError(code, message) ==
  [class |-> "CriticalError", forbidden |-> FALSE, code |-> code, message |-> message]

CiError(code) ==
  [class |-> "CiError", forbidden |-> FALSE, code |-> code, message |-> ""]

isForbiddenError(error) == error.forbidden

\* error instanceof CiError
IsCiError(error) == error.class \in {"CiError", "CriticalError"}

\* error instanceof BatchTimeoutRunawayError
IsBatchTimeoutRunawayError(error) == error.class = "BatchTimeoutRunawayError"

----------------------------------------------------------------------------
(* What a collaborator threw: the call that threw and its error *)

NotRaised == [op |-> "", error |-> NoError]

Raised(op, error) == [op |-> op, error |-> error]

(* Completions of executeTests *)

Running == [status |-> "running", error |-> NoError, batchId |-> "", results |-> <<>>]

Thrown(error) == [status |-> "thrown", error |-> error, batchId |-> "", results |-> <<>>]

Returned(results, batchId) ==
  [status |-> "returned", error |-> NoError, batchId |-> batchId, results |-> results]

(* Calls *)

Call(op, ids, payloads, batchTimeout) ==
  [op |-> op, ids |-> ids, payloads |-> payloads, batchTimeout |-> batchTimeout]

SimpleCall(op) == Call(op, <<>>, <<>>, 0)

----------------------------------------------------------------------------
(* Test overrides: one value per override key, Undefined when the key is   *)
(* not set.                                                                *)

NoOverrides == [k \in OverrideKeys |-> Undefined]

\* the variant of Spread in which the keys a sets win
SpreadFirstWins(a, b) == [k \in OverrideKeys |-> IF a[k] # Undefined THEN a[k] ELSE b[k]]

\* {...a, ...b}: the keys b sets win, the others keep a's value.
Spread(a, b) == [k \in OverrideKeys |-> IF b[k] # Undefined THEN b[k] ELSE a[k]]

\* a || b
OrElse(a, b) == IF a # Undefined THEN a ELSE b

----------------------------------------------------------------------------
(* getTriggerConfigs (lines 191-239)                                       *)
(* An entry of testsFromSearchQuery is [id, tag]; an entry of              *)
(* testsFromTestConfigs is [id, tag, testOverrides]; tag is the entry's    *)
(* position in the list its source returned, and stands for the rest of    *)
(* the entry's fields.                                                     *)

NoTag == 0

\* list.findIndex((test) => test.id === id); 0 stands for -1
RECURSIVE findIndexFrom(_, _, _)
findIndexFrom(list, id, i) ==
  IF i > Len(list) THEN 0
  ELSE IF list[i].id = id THEN i
  ELSE findIndexFrom(list, id, i + 1)

findIndex(list, id) == findIndexFrom(list, id, 1)

\* the variant of splice that removes nothing
spliceNothing(list, i) == list

\* the list after list.splice(i, 1)
splice(list, i) == [j \in 1..(Len(list) - 1) |-> IF j < i THEN list[j] ELSE list[j + 1]]

\* list.map(({id}) => id)
idsOf(list) == [i \in DOMAIN list |-> list[i].id]

\* the variant of testIdsToTrigger that takes the ids of all three sources
testIdsToTriggerUnion(testIdsFromCli, testIdsFromSearchQuery, testIdsFromTestConfigs) ==
  testIdsFromCli \o testIdsFromSearchQuery \o testIdsFromTestConfigs

\* [cli, search, files].find((ids) => ids.length > 0) ?? []
testIdsToTrigger(testIdsFromCli, testIdsFromSearchQuery, testIdsFromTestConfigs) ==
  IF Len(testIdsFromCli) > 0 THEN testIdsFromCli
  ELSE IF Len(testIdsFromSearchQuery) > 0 THEN testIdsFromSearchQuery
  ELSE IF Len(testIdsFromTestConfigs) > 0 THEN testIdsFromTestConfigs
  ELSE <<>>

\* The object built for one id (lines 227-235).
triggerConfigOf(id, testsFromSearchQuery, testsFromTestConfigs, defaults) ==
  LET s == findIndex(testsFromSearchQuery, id)
      f == findIndex(testsFromTestConfigs, id)
  IN [id |-> id,
      search |-> IF s > 0 THEN testsFromSearchQuery[s].tag ELSE NoTag,
      file |-> IF f > 0 THEN testsFromTestConfigs[f].tag ELSE NoTag,
      testOverrides |->
        Spread(defaults, IF f > 0 THEN testsFromTestConfigs[f].testOverrides ELSE NoOverrides)]

\* testIdsToTrigger.map(...) with the two lists spliced as entries are matched.
RECURSIVE mapTriggerConfigs(_, _, _, _)
mapTriggerConfigs(ids, testsFromSearchQuery, testsFromTestConfigs, defaults) ==
  IF ids = <<>> THEN <<>>
  ELSE
    LET id == Head(ids)
        s == findIndex(testsFromSearchQuery, id)
        f == findIndex(testsFromTestConfigs, id)
    IN <<triggerConfigOf(id, testsFromSearchQuery, testsFromTestConfigs, defaults)>>
       \o mapTriggerConfigs(
            Tail(ids),
            IF s > 0 THEN splice(testsFromSearchQuery, s) ELSE testsFromSearchQuery,
            IF f > 0 THEN splice(testsFromTestConfigs, f) ELSE testsFromTestConfigs,
            defaults)

getTriggerConfigs(publicIds, defaults, testsFromSearchQuery, testsFromTestConfigs) ==
  mapTriggerConfigs(
    testIdsToTrigger(publicIds, idsOf(testsFromSearchQuery), idsOf(testsFromTestConfigs)),
    testsFromSearchQuery, testsFromTestConfigs, defaults)

----------------------------------------------------------------------------
(* The synchronous pieces of executeTests *)

\* stopTunnel with its guard inverted
stopTunnelGuardInverted(t) == IF t = NoTunnel THEN <<SimpleCall("tunnel.stop")>> ELSE <<>>

\* const stopTunnel = async () => { if (tunnel) { await tunnel.stop() } }
stopTunnel(t) == IF t # NoTunnel THEN <<SimpleCall("tunnel.stop")>> ELSE <<>>

\* catch of getTriggerConfigs (line 79)
CatchTriggerConfigs(error) ==
  CriticalError(IF isForbiddenError(error) THEN "AUTHORIZATION_ERROR"
                ELSE "UNAVAILABLE_TEST_CONFIG", error.message)

\* catch of getTestsToTrigger (lines 102-108)
CatchTestsToTrigger(error) ==
  IF IsCiError(error) THEN error
  ELSE CriticalError(IF isForbiddenError(error) THEN "AUTHORIZATION_ERROR"
                     ELSE "UNAVAILABLE_TEST_CONFIG", error.message)

\* the catch of line 125 with the code of the catches above it
CatchPresignedURLAsTestConfig(error) == CriticalError("UNAVAILABLE_TEST_CONFIG", error.message)

\* catch of api.getTunnelPresignedURL (line 125)
CatchPresignedURL(error) == CriticalError("UNAVAILABLE_TUNNEL_CONFIG", error.message)

\* the catch of line 139 rethrowing what it caught
CatchTunnelStartRethrows(error) == error

\* catch of the tunnel's creation and start (line 139)
CatchTunnelStart(error) == CriticalError("TUNNEL_START_FAILED", error.message)

\* the catch of line 148 dropping the message of what it caught
CatchRunTestsNoMessage(error) == CriticalError("TRIGGER_TESTS_FAILED", "")

\* catch of runTests (line 148)
CatchRunTests(error) == CriticalError("TRIGGER_TESTS_FAILED", error.message)

\* the catch of lines 180-185 without its instanceof test
CatchWaitForResultsWrapsAll(error) == CriticalError("POLL_RESULTS_FAILED", error.message)

\* catch of waitForResults (lines 180-185)
CatchWaitForResults(error) ==
  IF IsBatchTimeoutRunawayError(error) THEN error
  ELSE CriticalError("POLL_RESULTS_FAILED", error.message)

\* tests.map(({public_id}) => public_id)
publicIdsToTrigger(ts) == [i \in DOMAIN ts |-> ts[i].public_id]

\* the forEach of lines 134-136 stopping before the last payload
attachTunnelButLast(payloads, tunnelInfo) ==
  [i \in DOMAIN payloads |->
     IF i < Len(payloads) THEN [payloads[i] EXCEPT !.tunnel = tunnelInfo] ELSE payloads[i]]

\* overriddenTestsToTrigger.forEach((testToTrigger) => { testToTrigger.tunnel = tunnelInfo })
attachTunnel(payloads, tunnelInfo) ==
  [i \in DOMAIN payloads |-> [payloads[i] EXCEPT !.tunnel = tunnelInfo]]

\* lines 151-153 with the condition negated
RateLimitedReportNegated(trig) ==
  IF ~trig.selective_rerun_rate_limited
  THEN <<[method |-> "error", text |-> "selective re-run rate-limited"]>>
  ELSE <<>>

\* if (trigger.selective_rerun_rate_limited) { reporter.error(...) }
RateLimitedReport(trig) ==
  IF trig.selective_rerun_rate_limited
  THEN <<[method |-> "error", text |-> "selective re-run rate-limited"]>>
  ELSE <<>>

\* the chain of line 159 reading the global polling timeout before the test's
pollingTimeoutOfGlobalFirst(t, cfg) ==
  OrElse(cfg.batchTimeout,
    OrElse(cfg.pollingTimeout,
      OrElse(t.testOverrides["pollingTimeout"], DEFAULT_BATCH_TIMEOUT)))

\* the variant of the chain of line 159 that ends without the default
pollingTimeoutOfNoDefault(t, cfg) ==
  OrElse(cfg.batchTimeout,
    OrElse(t.testOverrides["pollingTimeout"], cfg.pollingTimeout))

\* (t) => config.batchTimeout || t.testOverrides?.pollingTimeout
\*          || config.pollingTimeout || DEFAULT_BATCH_TIMEOUT
pollingTimeoutOf(t, cfg) ==
  OrElse(cfg.batchTimeout,
    OrElse(t.testOverrides["pollingTimeout"],
      OrElse(cfg.pollingTimeout, DEFAULT_BATCH_TIMEOUT)))

\* Math.max(...list) of a non-empty list
RECURSIVE MathMax(_)
MathMax(list) ==
  IF Len(list) = 1 THEN list[1]
  ELSE LET m == MathMax(Tail(list)) IN IF list[1] > m THEN list[1] ELSE m

\* lines 157-161 reading the first trigger config only
maxPollingTimeoutOfFirst(tcs, cfg) == pollingTimeoutOf(tcs[1], cfg)

\* const maxPollingTimeout = Math.max(...triggerConfigs.map(...)) (lines 157-161)
maxPollingTimeout(tcs, cfg) ==
  MathMax([i \in DOMAIN tcs |-> pollingTimeoutOf(tcs[i], cfg)])

----------------------------------------------------------------------------
(* The runs explored *)

\* testOverrides of the runs: the timeout the poll deadline reads
RunOverrides ==
  {[NoOverrides EXCEPT !["pollingTimeout"] = p] : p \in {Undefined} \cup OverrideTimeouts}

DefaultOverrides ==
  {[NoOverrides EXCEPT !["pollingTimeout"] = p] : p \in {Undefined, 60}}

\* what getTestsFromSearchQuery resolves to (line 202)
SearchResults ==
  {[i \in DOMAIN ids |-> [id |-> ids[i], tag |-> i]] : ids \in SeqsUpTo(Ids, MaxSearchResults)}

\* what getTestConfigs resolves to (line 199)
TestConfigLists ==
  {[i \in DOMAIN l |-> [id |-> l[i][1], tag |-> i, testOverrides |-> l[i][2]]] :
     l \in SeqsUpTo(Ids \X RunOverrides, MaxTestConfigs)}

Configs ==
  [tunnel : BOOLEAN, batchTimeout : GlobalBatchTimeouts, pollingTimeout : GlobalPollingTimeouts]

\* config.publicIds and config.defaultTestOverrides
Envs ==
  [publicIds : SeqsUpTo(Ids, MaxPublicIds),
   defaultTestOverrides : DefaultOverrides]

\* once getTriggerConfigs has returned nothing reads them any more
NoEnv == [publicIds |-> <<>>, defaultTestOverrides |-> NoOverrides]

NoTrigger == [batch_id |-> "", selective_rerun_rate_limited |-> FALSE]

\* the sub-lists of a list, in the list's order
RECURSIVE SubSeqs(_)
SubSeqs(list) ==
  IF list = <<>> THEN {<<>>}
  ELSE LET rest == SubSeqs(Tail(list))
       IN rest \cup {<<Head(list)>> \o r : r \in rest}

Init ==
  /\ pc = "getTriggerConfigs"
  /\ config \in Configs
  /\ env \in Envs
  /\ triggerConfigs = <<>>
  /\ tests = <<>>
  /\ overriddenTestsToTrigger = <<>>
  /\ tunnel = NoTunnel
  /\ startedInfo = NoTunnel
  /\ trigger = NoTrigger
  /\ pending = Running
  /\ outcome = Running
  /\ calls = <<>>
  /\ reporter = <<>>
  /\ raised = NotRaised
  /\ fn = "executeTests"
  /\ arg = <<>>
  /\ ret = <<>>

\* the variant of isEmptyList that lets an empty list through
isEmptyListNever(list) == FALSE

\* lines 82 and 113: !triggerConfigs.length, !tests.length
isEmptyList(list) == Len(list) = 0

\* executeTests has settled
Settle(completion) ==
  /\ outcome' = completion
  /\ pc' = "done"

----------------------------------------------------------------------------
(* lines 76-84: await getTriggerConfigs(...) *)

GetTriggerConfigsThrows ==
  /\ pc = "getTriggerConfigs"
  /\ \E error \in PlainErrors :
       /\ raised' = Raised("getTriggerConfigs", error)
       /\ Settle(Thrown(CatchTriggerConfigs(error)))
  /\ calls' = Append(calls, SimpleCall("getTriggerConfigs"))
  /\ env' = NoEnv
  /\ UNCHANGED <<config, triggerConfigs, tests, overriddenTestsToTrigger, tunnel,
                 startedInfo, trigger, pending, reporter,
                 libVars>>

GetTriggerConfigsReturns ==
  /\ pc = "getTriggerConfigs"
  /\ \E testsFromTestConfigs \in TestConfigLists, testsFromSearchQuery \in SearchResults :
       LET result == getTriggerConfigs(env.publicIds, env.defaultTestOverrides,
                                       testsFromSearchQuery, testsFromTestConfigs)
       IN /\ triggerConfigs' = result
          /\ IF isEmptyList(result)
             THEN Settle(Thrown(CiError("NO_TESTS_TO_RUN")))
             ELSE pc' = "getTestsToTrigger" /\ outcome' = outcome
  /\ calls' = Append(calls, SimpleCall("getTriggerConfigs"))
  /\ env' = NoEnv
  /\ UNCHANGED <<config, tests, overriddenTestsToTrigger, tunnel, startedInfo,
                 trigger, pending, reporter, raised,
                 libVars>>

(* lines 86-115: await getTestsToTrigger(...) *)

GetTestsToTriggerThrows ==
  /\ pc = "getTestsToTrigger"
  /\ \E error \in PlainErrors \cup CiErrorsThrown :
       /\ raised' = Raised("getTestsToTrigger", error)
       /\ Settle(Thrown(CatchTestsToTrigger(error)))
  /\ calls' = Append(calls, Call("getTestsToTrigger", idsOf(triggerConfigs), <<>>, 0))
  /\ UNCHANGED <<config, env, triggerConfigs, tests, overriddenTestsToTrigger, tunnel,
                 startedInfo, trigger, pending, reporter,
                 libVars>>

\* The tests found and not skipped are some of the trigger configs, each with
\* its payload.
GetTestsToTriggerReturns ==
  /\ pc = "getTestsToTrigger"
  /\ \E found \in SubSeqs(idsOf(triggerConfigs)) :
       /\ tests' = [i \in DOMAIN found |-> [public_id |-> found[i]]]
       /\ overriddenTestsToTrigger' =
            [i \in DOMAIN found |-> [public_id |-> found[i], tunnel |-> NoTunnel]]
       /\ IF isEmptyList(found)
          THEN Settle(Thrown(CiError("NO_TESTS_TO_RUN")))
          ELSE /\ pc' = IF config.tunnel THEN "getTunnelPresignedURL" ELSE "runTests"
               /\ outcome' = outcome
  /\ calls' = Append(calls, Call("getTestsToTrigger", idsOf(triggerConfigs), <<>>, 0))
  /\ UNCHANGED <<config, env, triggerConfigs, tunnel, startedInfo, trigger, pending,
                 reporter, raised,
                 libVars>>

(* lines 119-126: await api.getTunnelPresignedURL(publicIdsToTrigger) *)

GetTunnelPresignedURLThrows ==
  /\ pc = "getTunnelPresignedURL"
  /\ \E error \in PlainErrors :
       /\ raised' = Raised("getTunnelPresignedURL", error)
       /\ Settle(Thrown(CatchPresignedURL(error)))
  /\ calls' = Append(calls, Call("getTunnelPresignedURL", publicIdsToTrigger(tests), <<>>, 0))
  /\ UNCHANGED <<config, env, triggerConfigs, tests, overriddenTestsToTrigger, tunnel,
                 startedInfo, trigger, pending, reporter,
                 libVars>>

GetTunnelPresignedURLReturns ==
  /\ pc = "getTunnelPresignedURL"
  /\ pc' = "tunnelStart"
  /\ calls' = Append(calls, Call("getTunnelPresignedURL", publicIdsToTrigger(tests), <<>>, 0))
  /\ UNCHANGED <<config, env, triggerConfigs, tests, overriddenTestsToTrigger, tunnel,
                 startedInfo, trigger, pending, outcome, reporter, raised,
                 libVars>>

(* lines 128-140: new Tunnel(...), await tunnel.start() *)

\* getProxyAgent, getTunnelReporter or the constructor throws: no tunnel yet
TunnelSetupThrows ==
  /\ pc = "tunnelStart"
  /\ \E error \in PlainErrors :
       /\ raised' = Raised("new Tunnel", error)
       /\ pending' = Thrown(CatchTunnelStart(error))
  /\ pc' = "catchTunnelStart"
  /\ UNCHANGED <<config, env, triggerConfigs, tests, overriddenTestsToTrigger, tunnel,
                 startedInfo, trigger, outcome, calls, reporter,
                 libVars>>

TunnelStartThrows ==
  /\ pc = "tunnelStart"
  /\ tunnel' = "tunnel"
  /\ \E error \in PlainErrors :
       /\ raised' = Raised("tunnel.start", error)
       /\ pending' = Thrown(CatchTunnelStart(error))
  /\ pc' = "catchTunnelStart"
  /\ calls' = Append(calls, Call("tunnel.start", publicIdsToTrigger(tests), <<>>, 0))
  /\ UNCHANGED <<config, env, triggerConfigs, tests, overriddenTestsToTrigger,
                 startedInfo, trigger, outcome, reporter,
                 libVars>>

TunnelStartReturns ==
  /\ pc = "tunnelStart"
  /\ tunnel' = "tunnel"
  /\ \E tunnelInfo \in TunnelInfos :
       /\ startedInfo' = tunnelInfo
       /\ overriddenTestsToTrigger' = attachTunnel(overriddenTestsToTrigger, tunnelInfo)
  /\ pc' = "runTests"
  /\ calls' = Append(calls, Call("tunnel.start", publicIdsToTrigger(tests), <<>>, 0))
  /\ UNCHANGED <<config, env, triggerConfigs, tests, trigger, pending, outcome, reporter, raised,
                 libVars>>

\* line 138-139: await stopTunnel(); throw
StopTunnelAfterStartFailure ==
  /\ pc = "catchTunnelStart"
  /\ calls' = calls \o stopTunnel(tunnel)
  /\ Settle(pending)
  /\ UNCHANGED <<config, env, triggerConfigs, tests, overriddenTestsToTrigger, tunnel,
                 startedInfo, trigger, pending, reporter, raised,
                 libVars>>

(* lines 143-153: await runTests(...) *)

\* the variant of RunTestsThrows that tries runTests a second time
RunTestsThrowsRetried ==
  /\ pc = "runTests"
  /\ \E error \in PlainErrors :
       /\ raised' = Raised("runTests", error)
       /\ pending' = Thrown(CatchRunTests(error))
  /\ pc' = "catchRunTests"
  /\ calls' = calls \o
       <<Call("runTests", <<>>, overriddenTestsToTrigger, config.batchTimeout),
         Call("runTests", <<>>, overriddenTestsToTrigger, config.batchTimeout)>>
  /\ UNCHANGED <<config, env, triggerConfigs, tests, overriddenTestsToTrigger, tunnel,
                 startedInfo, trigger, outcome, reporter,
                 libVars>>

RunTestsThrows ==
  /\ pc = "runTests"
  /\ \E error \in PlainErrors :
       /\ raised' = Raised("runTests", error)
       /\ pending' = Thrown(CatchRunTests(error))
  /\ pc' = "catchRunTests"
  /\ calls' = Append(calls, Call("runTests", <<>>, overriddenTestsToTrigger, config.batchTimeout))
  /\ UNCHANGED <<config, env, triggerConfigs, tests, overriddenTestsToTrigger, tunnel,
                 startedInfo, trigger, outcome, reporter,
                 libVars>>

RunTestsReturns ==
  /\ pc = "runTests"
  /\ \E batch \in BatchIds, limited \in BOOLEAN :
       LET trig == [batch_id |-> batch, selective_rerun_rate_limited |-> limited]
       IN /\ trigger' = trig
          /\ reporter' = reporter \o RateLimitedReport(trig)
  /\ pc' = "waitForResults"
  /\ calls' = Append(calls, Call("runTests", <<>>, overriddenTestsToTrigger, config.batchTimeout))
  /\ UNCHANGED <<config, env, triggerConfigs, tests, overriddenTestsToTrigger, tunnel,
                 startedInfo, pending, outcome, raised,
                 libVars>>

\* lines 147-148: await stopTunnel(); throw
StopTunnelAfterRunTestsFailure ==
  /\ pc = "catchRunTests"
  /\ calls' = calls \o stopTunnel(tunnel)
  /\ Settle(pending)
  /\ UNCHANGED <<config, env, triggerConfigs, tests, overriddenTestsToTrigger, tunnel,
                 startedInfo, trigger, pending, reporter, raised,
                 libVars>>

(* lines 155-185: await waitForResults(...) *)

WaitForResultsCall ==
  Call("waitForResults", publicIdsToTrigger(tests), <<>>,
       maxPollingTimeout(triggerConfigs, config))

WaitForResultsThrows ==
  /\ pc = "waitForResults"
  /\ \E error \in PlainErrors \cup TimeoutErrors :
       /\ raised' = Raised("waitForResults", error)
       /\ pending' = Thrown(CatchWaitForResults(error))
  /\ pc' = "finally"
  /\ calls' = Append(calls, WaitForResultsCall)
  /\ UNCHANGED <<config, env, triggerConfigs, tests, overriddenTestsToTrigger, tunnel,
                 startedInfo, trigger, outcome, reporter,
                 libVars>>

WaitForResultsReturns ==
  /\ pc = "waitForResults"
  /\ pending' = Returned([i \in DOMAIN tests |-> [public_id |-> tests[i].public_id]],
                         trigger.batch_id)
  /\ pc' = "finally"
  /\ calls' = Append(calls, WaitForResultsCall)
  /\ UNCHANGED <<config, env, triggerConfigs, tests, overriddenTestsToTrigger, tunnel,
                 startedInfo, trigger, outcome, reporter, raised,
                 libVars>>

\* lines 186-188: finally { await stopTunnel() }
Finally ==
  /\ pc = "finally"
  /\ calls' = calls \o stopTunnel(tunnel)
  /\ Settle(pending)
  /\ UNCHANGED <<config, env, triggerConfigs, tests, overriddenTestsToTrigger, tunnel,
                 startedInfo, trigger, pending, reporter, raised,
                 libVars>>

Next ==
  \/ GetTriggerConfigsThrows
  \/ GetTriggerConfigsReturns
  \/ GetTestsToTriggerThrows
  \/ GetTestsToTriggerReturns
  \/ GetTunnelPresignedURLThrows
  \/ GetTunnelPresignedURLReturns
  \/ TunnelSetupThrows
  \/ TunnelStartThrows
  \/ TunnelStartReturns
  \/ StopTunnelAfterStartFailure
  \/ RunTestsThrows
  \/ RunTestsReturns
  \/ StopTunnelAfterRunTestsFailure
  \/ WaitForResultsThrows
  \/ WaitForResultsReturns
  \/ Finally

Spec == Init /\ [][Next]_vars

----------------------------------------------------------------------------
(* Properties of executeTests *)

CallsOf(op) == {i \in DOMAIN calls : calls[i].op = op}

Count(op) == Cardinality(CallsOf(op))

Called(op) == CallsOf(op) # {}

Done == pc = "done"

\* tunnel.start() was invoked and threw
TunnelStartFailed == raised.op = "tunnel.start"

\* api.getTunnelPresignedURL was invoked and threw
PresignedURLFailed == raised.op = "getTunnelPresignedURL"

\* runTests was invoked and threw
RunTestsFailed == raised.op = "runTests"

\* waitForResults was invoked and threw
WaitForResultsFailed == raised.op = "waitForResults"

\* C1: tunnel.stop() is called as many times as tunnel.start(): never before
\* the start, once by the time a run that started a tunnel has ended, however
\* it ended, and not at all in a run with config.tunnel unset or whose
\* pre-signed URL request failed.
C1_StopOncePerStartedTunnel ==
  /\ Count("tunnel.start") <= 1
  /\ Count("tunnel.stop") <= Count("tunnel.start")
  /\ Done => Count("tunnel.stop") = Count("tunnel.start")
  /\ ~config.tunnel => Count("tunnel.stop") = 0
  /\ PresignedURLFailed => Count("tunnel.stop") = 0

\* a run that hit the batch timeout with a tunnel open has stopped it once
C1_Witness ==
  /\ Done
  /\ outcome.error.class = "BatchTimeoutRunawayError"
  /\ Count("tunnel.start") = 1
  /\ Count("tunnel.stop") = 1

C3_TunnelInfoOnPayloads ==
  config.tunnel =>
    /\ \A i \in CallsOf("runTests") :
         /\ startedInfo \in TunnelInfos
         /\ \E j \in CallsOf("tunnel.start") : j < i
         /\ calls[i].payloads # <<>>
         /\ \A k \in DOMAIN calls[i].payloads : calls[i].payloads[k].tunnel = startedInfo
    /\ pc = "waitForResults" => ~Called("tunnel.stop")
    /\ \A i \in CallsOf("tunnel.stop"), j \in CallsOf("waitForResults") : j < i

C3_Witness ==
  /\ config.tunnel
  /\ Done
  /\ outcome.status = "returned"
  /\ startedInfo = "t2"
  /\ \E i \in CallsOf("runTests") : Len(calls[i].payloads) = 2
  /\ Called("tunnel.stop")

\* C4: getTunnelPresignedURL is called only with config.tunnel set, at most
\* once, with the public ids of the tests getTestsToTrigger returned, and
\* before any tunnel start or runTests of such a run; when it throws, the run
\* ends with CriticalError UNAVAILABLE_TUNNEL_CONFIG and neither
\* tunnel.start nor runTests is called.
C4_PresignedURL ==
  /\ Count("getTunnelPresignedURL") <= 1
  /\ \A i \in CallsOf("getTunnelPresignedURL") :
       /\ config.tunnel
       /\ Len(calls[i].ids) = Len(tests)
       /\ \A k \in DOMAIN tests : calls[i].ids[k] = tests[k].public_id
  /\ (config.tunnel /\ (Called("tunnel.start") \/ Called("runTests"))) =>
       Count("getTunnelPresignedURL") = 1
  /\ PresignedURLFailed =>
       /\ outcome = Thrown(CriticalError("UNAVAILABLE_TUNNEL_CONFIG", raised.error.message))
       /\ ~Called("tunnel.start")
       /\ ~Called("runTests")

C4_Witness ==
  /\ PresignedURLFailed
  /\ Len(tests) = 2
  /\ outcome.error.code = "UNAVAILABLE_TUNNEL_CONFIG"
  /\ outcome.error.message = "forbidden"

RateLimitedRunProceeds ==
  /\ pc \in {"waitForResults", "finally", "done"}
  /\ pc = "waitForResults" => outcome = Running
  /\ pc \in {"finally", "done"} =>
       \E i \in CallsOf("waitForResults") :
         /\ Len(calls[i].ids) = Len(tests)
         /\ \A k \in DOMAIN tests : calls[i].ids[k] = tests[k].public_id
  /\ (Done /\ raised = NotRaised) =>
       /\ outcome.status = "returned"
       /\ outcome.batchId = trigger.batch_id
       /\ Len(outcome.results) = Len(tests)

\* C6, as claimed: after runTests returned selective_rerun_rate_limited =
\* true the run goes on, and the condition reaches the reporter as a warning,
\* not through its error method.
C6_RateLimitedIsWarning ==
  trigger.selective_rerun_rate_limited =>
    /\ RateLimitedRunProceeds
    /\ \E i \in DOMAIN reporter : reporter[i].method = "warn"
    /\ \A i \in DOMAIN reporter : reporter[i].method # "error"

\* C6, amended: after runTests returned selective_rerun_rate_limited = true
\* the run goes on to poll all the tests and returns when the poll returns;
\* the condition is reported with one call of reporter.error and nothing is
\* thrown for it.  A run that was not rate-limited makes no such call.
C6_RateLimitedIsReported ==
  /\ trigger.selective_rerun_rate_limited =>
       /\ RateLimitedRunProceeds
       /\ Len(reporter) = 1
       /\ reporter[1].method = "error"
  /\ ~trigger.selective_rerun_rate_limited => reporter = <<>>

C6_Witness ==
  /\ trigger.selective_rerun_rate_limited
  /\ Done
  /\ outcome.status = "returned"
  /\ Len(outcome.results) = 2
  /\ Len(reporter) = 1

\* the timeout override of a trigger config
OwnTimeout(t) == t.testOverrides["pollingTimeout"]

\* C7, as claimed: the batchTimeout given to waitForResults is at least the
\* timeout override of every trigger config, whatever the global batch
\* timeout.
C7_DeadlineCoversOverrides ==
  \A i \in CallsOf("waitForResults"), k \in DOMAIN triggerConfigs :
    calls[i].batchTimeout >= OwnTimeout(triggerConfigs[k])

\* C7, amended: with no global batch timeout configured, the batchTimeout
\* given to waitForResults is at least the timeout override of every trigger
\* config; a configured global batch timeout is itself the deadline,
\* whatever the overrides.
C7_DeadlineCoversOverridesUnlessGlobal ==
  \A i \in CallsOf("waitForResults") :
    IF config.batchTimeout = Undefined
    THEN \A k \in DOMAIN triggerConfigs :
           calls[i].batchTimeout >= OwnTimeout(triggerConfigs[k])
    ELSE calls[i].batchTimeout = config.batchTimeout

\* overrides of 60 and 120, no global batch timeout: the poll gets 120
C7_Witness ==
  /\ config.batchTimeout = Undefined
  /\ Len(triggerConfigs) = 2
  /\ OwnTimeout(triggerConfigs[1]) = 120
  /\ OwnTimeout(triggerConfigs[2]) = 60
  /\ \E i \in CallsOf("waitForResults") : calls[i].batchTimeout = 120

\* the timeout of a trigger config when no global batch timeout is set: its
\* own override, else the global polling timeout, else the default
TimeoutOrGlobalDefault(t) ==
  IF OwnTimeout(t) # Undefined THEN OwnTimeout(t)
  ELSE IF config.pollingTimeout # Undefined THEN config.pollingTimeout
  ELSE DEFAULT_BATCH_TIMEOUT

\* C8: with no global batch timeout configured, the batchTimeout given to
\* waitForResults is the greatest, over the trigger configs, of the config's
\* timeout override, the global default standing in for a config without
\* one; overrides of 60 and 120 give 120.
C8_DeadlineIsMaximum ==
  \A i \in CallsOf("waitForResults") :
    config.batchTimeout = Undefined =>
      /\ \E k \in DOMAIN triggerConfigs :
           calls[i].batchTimeout = TimeoutOrGlobalDefault(triggerConfigs[k])
      /\ \A k \in DOMAIN triggerConfigs :
           calls[i].batchTimeout >= TimeoutOrGlobalDefault(triggerConfigs[k])
      /\ {OwnTimeout(triggerConfigs[k]) : k \in DOMAIN triggerConfigs} = {60, 120} =>
           calls[i].batchTimeout = 120

\* a config with an override below the global polling timeout beside one
\* without override: the poll gets the global polling timeout
C8_Witness ==
  /\ config.batchTimeout = Undefined
  /\ config.pollingTimeout = 90
  /\ Len(triggerConfigs) = 2
  /\ OwnTimeout(triggerConfigs[1]) = 60
  /\ OwnTimeout(triggerConfigs[2]) = Undefined
  /\ \E i \in CallsOf("waitForResults") : calls[i].batchTimeout = 90

BackendCalls ==
  {"getTriggerConfigs", "getTestsToTrigger", "getTunnelPresignedURL", "runTests",
   "waitForResults"}

\* C10, as claimed: a run in which a backend call threw a forbidden error
\* ends with a CriticalError of code AUTHORIZATION_ERROR.
C10_ForbiddenIsAuthorizationError ==
  (Done /\ raised.op \in BackendCalls /\ isForbiddenError(raised.error)) =>
    /\ outcome.status = "thrown"
    /\ outcome.error.class = "CriticalError"
    /\ outcome.error.code = "AUTHORIZATION_ERROR"

----------------------------------------------------------------------------
\* getTriggerConfigs or getTestsToTrigger resolved, and to an empty list
NothingToRun == Done /\ raised = NotRaised /\ tests = <<>>

\* C11: when getTriggerConfigs returns an empty list or getTestsToTrigger
\* returns no tests, executeTests throws CiError NO_TESTS_TO_RUN and the call
\* that returned nothing is its last: no pre-signed URL is requested, no
\* tunnel is started or stopped, runTests is not called and nothing is polled.
\* Conversely a list with nothing in it never reaches those calls.
C11_NothingToRun ==
  /\ NothingToRun =>
        /\ outcome = Thrown(CiError("NO_TESTS_TO_RUN"))
        /\ calls[Len(calls)].op \in {"getTriggerConfigs", "getTestsToTrigger"}
        /\ \A op \in {"getTunnelPresignedURL", "tunnel.start", "runTests",
                       "waitForResults", "tunnel.stop"} : ~Called(op)
  /\ Called("getTestsToTrigger") => triggerConfigs # <<>>
  /\ (\E op \in {"getTunnelPresignedURL", "tunnel.start", "runTests", "waitForResults"} :
        Called(op)) => tests # <<>>

\* a run whose trigger configs were all skipped or missing: getTestsToTrigger
\* returned no test and the run ended there with NO_TESTS_TO_RUN
C11_Witness ==
  /\ NothingToRun
  /\ triggerConfigs # <<>>
  /\ config.tunnel
  /\ outcome.error.code = "NO_TESTS_TO_RUN"
  /\ calls[Len(calls)].op = "getTestsToTrigger"

\* the place of each call in the flow of executeTests
StepOf(op) ==
  CASE op = "getTriggerConfigs" -> 1
    [] op = "getTestsToTrigger" -> 2
    [] op = "getTunnelPresignedURL" -> 3
    [] op = "tunnel.start" -> 4
    [] op = "runTests" -> 5
    [] op = "waitForResults" -> 6
    [] op = "tunnel.stop" -> 7

\* the call executeTests is suspended on, or about to make
AwaitedStep ==
  CASE pc = "getTriggerConfigs" -> 1
    [] pc = "getTestsToTrigger" -> 2
    [] pc = "getTunnelPresignedURL" -> 3
    [] pc = "tunnelStart" -> 4
    [] pc = "runTests" -> 5
    [] pc = "waitForResults" -> 6
    [] pc \in {"catchTunnelStart", "catchRunTests", "finally"} -> 7
    [] OTHER -> 8

\* C19: the calls of one run are made in the order getTriggerConfigs,
\* getTestsToTrigger, getTunnelPresignedURL, tunnel.start, runTests,
\* waitForResults, tunnel.stop, each at most once, and the call the run is
\* suspended on comes after every call already completed: no call is made
\* again and no two are in flight together.
C19_StrictSequence ==
  /\ \A i, j \in DOMAIN calls : i < j => StepOf(calls[i].op) < StepOf(calls[j].op)
  /\ \A i \in DOMAIN calls : StepOf(calls[i].op) < AwaitedStep
  /\ \A op \in {"getTriggerConfigs", "getTestsToTrigger", "getTunnelPresignedURL",
                 "tunnel.start", "runTests"} : Count(op) <= 1

\* a run through a tunnel that made all seven calls, one after the other
C19_Witness ==
  /\ Done
  /\ Len(calls) = 7
  /\ [i \in DOMAIN calls |-> StepOf(calls[i].op)] = <<1, 2, 3, 4, 5, 6, 7>>

\* the timeouts Math.max is applied to at lines 157-161
PollTimeouts == [k \in DOMAIN triggerConfigs |-> pollingTimeoutOf(triggerConfigs[k], config)]

\* no timeout of the configuration is below zero
NoNegativeTimeout ==
  /\ config.batchTimeout >= 0
  /\ config.pollingTimeout >= 0
  /\ \A k \in DOMAIN triggerConfigs : OwnTimeout(triggerConfigs[k]) >= 0

\* C21, as claimed: waitForResults is called only with a non-empty list of
\* trigger configs and a non-empty list of tests, and the batchTimeout it
\* gets is the maximum of a non-empty list of timeouts that are all
\* positive.
C21_DeadlineOfPositiveTimeouts ==
  \A i \in CallsOf("waitForResults") :
    /\ triggerConfigs # <<>>
    /\ tests # <<>>
    /\ calls[i].ids # <<>>
    /\ PollTimeouts # <<>>
    /\ \A k \in DOMAIN PollTimeouts : PollTimeouts[k] > 0
    /\ calls[i].batchTimeout = MathMax(PollTimeouts)

\* C21, amended: waitForResults is called only with a non-empty list of
\* trigger configs and a non-empty list of tests, and the batchTimeout it
\* gets is the maximum of a non-empty list of timeouts none of which is
\* zero or undefined; they are all positive when no configured timeout is
\* negative, and a negative global batch timeout is itself the deadline.
C21_DeadlineOfNonEmptyList ==
  \A i \in CallsOf("waitForResults") :
    /\ triggerConfigs # <<>>
    /\ tests # <<>>
    /\ calls[i].ids # <<>>
    /\ PollTimeouts # <<>>
    /\ \A k \in DOMAIN PollTimeouts : PollTimeouts[k] # Undefined
    /\ calls[i].batchTimeout = MathMax(PollTimeouts)
    /\ calls[i].batchTimeout # Undefined
    /\ NoNegativeTimeout => \A k \in DOMAIN PollTimeouts : PollTimeouts[k] > 0
    /\ config.batchTimeout < 0 => calls[i].batchTimeout = config.batchTimeout

\* a poll over two trigger configs with nothing configured but one override:
\* the deadline is the maximum of the override and the default
C21_Witness ==
  /\ Called("waitForResults")
  /\ Len(triggerConfigs) = 2
  /\ config.batchTimeout = Undefined
  /\ config.pollingTimeout = Undefined
  /\ PollTimeouts = <<60, DEFAULT_BATCH_TIMEOUT>>
  /\ calls[Len(calls)].batchTimeout = DEFAULT_BATCH_TIMEOUT

----------------------------------------------------------------------------
(* getTriggerConfigs on its own (lines 191-239): config.publicIds, the     *)
(* default overrides and what getTestConfigs and getTestsFromSearchQuery   *)
(* resolve to are drawn from lists of up to MaxSourceLen entries over two  *)
(* ids, so that an id can occur twice in a list.                           *)

MaxSourceLen == 2

\* no run of executeTests is under way
RunIdle ==
  /\ pc = "idle"
  /\ config = [tunnel |-> FALSE, batchTimeout |-> Undefined, pollingTimeout |-> Undefined]
  /\ env = NoEnv
  /\ triggerConfigs = <<>>
  /\ tests = <<>>
  /\ overriddenTestsToTrigger = <<>>
  /\ tunnel = NoTunnel
  /\ startedInfo = NoTunnel
  /\ trigger = NoTrigger
  /\ pending = Running
  /\ outcome = Running
  /\ calls = <<>>
  /\ reporter = <<>>
  /\ raised = NotRaised

\* the function has not returned yet
NotReturned == [returned |-> FALSE, value |-> <<>>]

ReturnedValue(value) == [returned |-> TRUE, value |-> value]

\* config.defaultTestOverrides
TriggerDefaults == [OverrideKeys -> {Undefined, 30}]

\* testOverrides of an entry of a test-config file
TriggerTestOverrides == [OverrideKeys -> {Undefined, 60}]

\* what getTestsFromSearchQuery resolves to (line 202)
TriggerSearchResults ==
  {[i \in DOMAIN ids |-> [id |-> ids[i], tag |-> i]] : ids \in SeqsUpTo(Ids, MaxSourceLen)}

\* what getTestConfigs resolves to (line 199)
TriggerTestConfigs ==
  {[i \in DOMAIN l |-> [id |-> l[i][1], tag |-> i, testOverrides |-> l[i][2]]] :
     l \in SeqsUpTo(Ids \X TriggerTestOverrides, MaxSourceLen)}

TriggerInit ==
  /\ RunIdle
  /\ fn = "getTriggerConfigs"
  /\ arg \in [publicIds : SeqsUpTo(Ids, MaxSourceLen),
               defaultTestOverrides : TriggerDefaults,
               testsFromSearchQuery : TriggerSearchResults,
               testsFromTestConfigs : TriggerTestConfigs]
  /\ ret = NotReturned

\* lines 198-238, the two awaits having resolved to the lists of arg
GetTriggerConfigs ==
  /\ fn = "getTriggerConfigs"
  /\ ~ret.returned
  /\ ret' = ReturnedValue(getTriggerConfigs(arg.publicIds, arg.defaultTestOverrides,
                                             arg.testsFromSearchQuery,
                                             arg.testsFromTestConfigs))
  /\ UNCHANGED <<fn, arg, runVars>>

TriggerNext == GetTriggerConfigs

SpecTrigger == TriggerInit /\ [][TriggerNext]_vars

\* the id source the claims call chosen: the first of the three with an id
ChosenIds ==
  IF arg.publicIds # <<>> THEN arg.publicIds
  ELSE IF arg.testsFromSearchQuery # <<>> THEN idsOf(arg.testsFromSearchQuery)
  ELSE idsOf(arg.testsFromTestConfigs)

\* C12: getTriggerConfigs returns one TriggerConfig per id of the first
\* non-empty source among config.publicIds, the ids of the search-query
\* results and the ids of the test-config files, in that source's order, and
\* nothing else: an id found only in a source of lower precedence is not in
\* the result, and the result is empty when the three sources are.
C12_FirstNonEmptySource ==
  ret.returned =>
    /\ idsOf(ret.value) = ChosenIds
    /\ arg.publicIds # <<>> => idsOf(ret.value) = arg.publicIds
    /\ (arg.publicIds = <<>> /\ arg.testsFromSearchQuery # <<>>) =>
          idsOf(ret.value) = idsOf(arg.testsFromSearchQuery)
    /\ (arg.publicIds = <<>> /\ arg.testsFromSearchQuery = <<>>) =>
          idsOf(ret.value) = idsOf(arg.testsFromTestConfigs)
    /\ (arg.publicIds = <<>> /\ arg.testsFromSearchQuery = <<>>
          /\ arg.testsFromTestConfigs = <<>>) => ret.value = <<>>

\* no id on the command line, the search query found <<a, b>>, a test-config
\* file names b only: the result is for a and b, in that order
C12_Witness ==
  /\ ret.returned
  /\ arg.publicIds = <<>>
  /\ idsOf(arg.testsFromSearchQuery) = <<"a", "b">>
  /\ idsOf(arg.testsFromTestConfigs) = <<"b">>
  /\ idsOf(ret.value) = <<"a", "b">>

\* the entry of the test-config list attached to a TriggerConfig; the tag of
\* an entry is its position in the list getTestConfigs resolved to
MatchedTestConfig(t) == arg.testsFromTestConfigs[t.file]

\* C13: the testOverrides of every TriggerConfig are the default overrides
\* merged with those of the test-config entry matched for its id: a key the
\* entry sets has the entry's value, also when the defaults set it too, a key
\* it does not set has the default value, and without a matched entry the
\* testOverrides are exactly the defaults.
C13_PerTestOverridesWin ==
  ret.returned =>
    \A i \in DOMAIN ret.value :
      LET t == ret.value[i]
      IN IF t.file = NoTag
         THEN t.testOverrides = arg.defaultTestOverrides
         ELSE /\ MatchedTestConfig(t).id = t.id
              /\ \A k \in OverrideKeys :
                   t.testOverrides[k] =
                     IF MatchedTestConfig(t).testOverrides[k] # Undefined
                     THEN MatchedTestConfig(t).testOverrides[k]
                     ELSE arg.defaultTestOverrides[k]

\* the defaults set both keys and the file entry of a sets pollingTimeout
\* only: a has the entry's pollingTimeout and the default testTimeout, and b,
\* which no file names, has the defaults
C13_Witness ==
  /\ ret.returned
  /\ arg.publicIds = <<"a", "b">>
  /\ arg.defaultTestOverrides = [pollingTimeout |-> 30, testTimeout |-> 30]
  /\ Len(arg.testsFromTestConfigs) = 1
  /\ arg.testsFromTestConfigs[1].id = "a"
  /\ arg.testsFromTestConfigs[1].testOverrides = [pollingTimeout |-> 60, testTimeout |-> Undefined]
  /\ ret.value[1].testOverrides = [pollingTimeout |-> 60, testTimeout |-> 30]
  /\ ret.value[2].testOverrides = [pollingTimeout |-> 30, testTimeout |-> 30]

\* which occurrence of its id the i-th id of a list is: 1 for the first
OccurrenceAt(ids, i) == Cardinality({j \in 1..i : ids[j] = ids[i]})

\* the tag of the k-th entry of a list with the given id, NoTag if there are
\* fewer than k
KthEntryWith(list, id, k) ==
  LET at == {p \in DOMAIN list : list[p].id = id /\ OccurrenceAt(idsOf(list), p) = k}
  IN IF at = {} THEN NoTag ELSE list[CHOOSE p \in at : TRUE].tag

\* C20: an entry of the search-query results or of the test-config list is
\* attached to at most one TriggerConfig; the k-th occurrence of an id in the
\* chosen id source has the k-th entry with that id of each list, and an
\* occurrence beyond the entries with that id has none: no metadata of the
\* list, and for the test-config list no overrides but the defaults.
C20_EntriesConsumedOnce ==
  ret.returned =>
    /\ Len(ret.value) = Len(ChosenIds)
    /\ \A i, j \in DOMAIN ret.value :
         i # j => /\ ret.value[i].search # NoTag => ret.value[i].search # ret.value[j].search
                  /\ ret.value[i].file # NoTag => ret.value[i].file # ret.value[j].file
    /\ \A i \in DOMAIN ret.value :
         LET k == OccurrenceAt(ChosenIds, i)
         IN /\ ret.value[i].search = KthEntryWith(arg.testsFromSearchQuery, ChosenIds[i], k)
            /\ ret.value[i].file = KthEntryWith(arg.testsFromTestConfigs, ChosenIds[i], k)
            /\ ret.value[i].file = NoTag =>
                 ret.value[i].testOverrides = arg.defaultTestOverrides

\* a is asked for twice; the files have two entries for a and the search
\* results one, after one for b: the first a has the first of each, the second
\* a the second file entry and no search result
C20_Witness ==
  /\ ret.returned
  /\ arg.publicIds = <<"a", "a">>
  /\ idsOf(arg.testsFromSearchQuery) = <<"b", "a">>
  /\ idsOf(arg.testsFromTestConfigs) = <<"a", "a">>
  /\ arg.testsFromTestConfigs[1].testOverrides # arg.testsFromTestConfigs[2].testOverrides
  /\ ret.value[1].search = 2 /\ ret.value[1].file = 1
  /\ ret.value[2].search = NoTag /\ ret.value[2].file = 2
  /\ ret.value[2].testOverrides # ret.value[1].testOverrides

----------------------------------------------------------------------------
(* validateAndParseOverrides (src/commands/dependencies/upload.ts, lines   *)
(* 214-465). A string is the sequence of its characters, so that the       *)
(* regular expression of line 354, split, trim, toLowerCase, Number and    *)
(* the edit distance work on the text of an override as the code does.     *)

\* the characters . of a regular expression does not match
LineTerminators == {"\n", "\r"}

\* the characters String.prototype.trim removes and Number skips
WhiteSpace == {" ", "\t", "\n", "\r"}

UpperCase == <<"A", "B", "C", "D", "E", "F", "G", "H", "I", "J", "K", "L", "M",
               "N", "O", "P", "Q", "R", "S", "T", "U", "V", "W", "X", "Y", "Z">>

LowerCase == <<"a", "b", "c", "d", "e", "f", "g", "h", "i", "j", "k", "l", "m",
               "n", "o", "p", "q", "r", "s", "t", "u", "v", "w", "x", "y", "z">>

Digits == <<"0", "1", "2", "3", "4", "5", "6", "7", "8", "9">>

\* s.indexOf(c) + 1: the first position of c in s, 0 when there is none
indexOf(s, c) ==
  IF \E i \in DOMAIN s : s[i] = c
  THEN CHOOSE i \in DOMAIN s : s[i] = c /\ \A j \in 1..(i - 1) : s[j] # c
  ELSE 0

\* s.split(sep): the parts of s between the separators, <<s>> without one
RECURSIVE split(_, _)
split(s, sep) ==
  LET i == indexOf(s, sep)
  IN IF i = 0 THEN <<s>>
     ELSE <<SubSeq(s, 1, i - 1)>> \o split(SubSeq(s, i + 1, Len(s)), sep)

\* s.trim(): s from its first to its last character that is no white space
trim(s) ==
  LET kept == {i \in DOMAIN s : s[i] \notin WhiteSpace}
  IN IF kept = {} THEN <<>>
     ELSE SubSeq(s, CHOOSE i \in kept : \A j \in kept : i <= j,
                    CHOOSE i \in kept : \A j \in kept : i >= j)

\* s.toLowerCase()
toLowerCase(s) ==
  [i \in DOMAIN s |->
     IF \E u \in DOMAIN UpperCase : UpperCase[u] = s[i]
     THEN LowerCase[CHOOSE u \in DOMAIN UpperCase : UpperCase[u] = s[i]]
     ELSE s[i]]

\* override.match(/^(.*?)=(.*)$/) ?? [], then match[1] ?? '' and match[2] ?? ''
\* (lines 354-356). Without the s flag . matches no line terminator and
\* without the m flag $ is the end of the text: the expression matches a text
\* with an equal sign and no line terminator, up to its first equal sign.
matchOverride(override) ==
  LET e == indexOf(override, "=")
  IN IF e = 0 \/ \E i \in DOMAIN override : override[i] \in LineTerminators
     THEN [rawKey |-> <<>>, value |-> <<>>]
     ELSE [rawKey |-> SubSeq(override, 1, e - 1),
           value |-> SubSeq(override, e + 1, Len(override))]

\* rawKey.split('.')[0] (line 358)
keyOf(rawKey) == split(rawKey, ".")[1]

\* rawKey.split('.')[1] (line 359); the empty string stands for undefined
\* too: the code tells them apart only in the text of an error
subKeyOf(rawKey) ==
  LET parts == split(rawKey, ".")
  IN IF Len(parts) >= 2 THEN parts[2] ELSE <<>>

\* the names of the override keys (lines 296-315)
Key ==
  [cookies |-> <<"c", "o", "o", "k", "i", "e", "s">>,
   retry |-> <<"r", "e", "t", "r", "y">>,
   basicAuth |-> <<"b", "a", "s", "i", "c", "A", "u", "t", "h">>,
   allowInsecureCertificates |->
     <<"a", "l", "l", "o", "w", "I", "n", "s", "e", "c", "u", "r", "e", "C",
       "e", "r", "t", "i", "f", "i", "c", "a", "t", "e", "s">>,
   body |-> <<"b", "o", "d", "y">>,
   bodyType |-> <<"b", "o", "d", "y", "T", "y", "p", "e">>,
   defaultStepTimeout |->
     <<"d", "e", "f", "a", "u", "l", "t", "S", "t", "e", "p", "T", "i", "m",
       "e", "o", "u", "t">>,
   deviceIds |-> <<"d", "e", "v", "i", "c", "e", "I", "d", "s">>,
   executionRule |->
     <<"e", "x", "e", "c", "u", "t", "i", "o", "n", "R", "u", "l", "e">>,
   followRedirects |->
     <<"f", "o", "l", "l", "o", "w", "R", "e", "d", "i", "r", "e", "c", "t",
       "s">>,
   headers |-> <<"h", "e", "a", "d", "e", "r", "s">>,
   locations |-> <<"l", "o", "c", "a", "t", "i", "o", "n", "s">>,
   pollingTimeout |->
     <<"p", "o", "l", "l", "i", "n", "g", "T", "i", "m", "e", "o", "u", "t">>,
   resourceUrlSubstitutionRegexes |->
     <<"r", "e", "s", "o", "u", "r", "c", "e", "U", "r", "l", "S", "u", "b",
       "s", "t", "i", "t", "u", "t", "i", "o", "n", "R", "e", "g", "e", "x",
       "e", "s">>,
   startUrl |-> <<"s", "t", "a", "r", "t", "U", "r", "l">>,
   startUrlSubstitutionRegex |->
     <<"s", "t", "a", "r", "t", "U", "r", "l", "S", "u", "b", "s", "t", "i",
       "t", "u", "t", "i", "o", "n", "R", "e", "g", "e", "x">>,
   testTimeout |-> <<"t", "e", "s", "t", "T", "i", "m", "e", "o", "u", "t">>,
   variables |-> <<"v", "a", "r", "i", "a", "b", "l", "e", "s">>]

\* the override keys in the order of the list (lines 296-315)
allOverrideKeys ==
  <<Key.cookies, Key.retry, Key.basicAuth,
    Key.allowInsecureCertificates, Key.body, Key.bodyType,
    Key.defaultStepTimeout, Key.deviceIds, Key.executionRule,
    Key.followRedirects, Key.headers, Key.locations,
    Key.pollingTimeout, Key.resourceUrlSubstitutionRegexes, Key.startUrl,
    Key.startUrlSubstitutionRegex, Key.testTimeout, Key.variables>>

\* A value of an override: a number, a boolean, a string, a list of strings,
\* or undefined; NaN is what Number gives for a text that is no number.
NoValue == [type |-> "undefined", n |-> 0, b |-> FALSE, s |-> <<>>, l |-> <<>>]

NaN == [NoValue EXCEPT !.type = "NaN"]

NumberValue(n) == [NoValue EXCEPT !.type = "number", !.n = n]

BooleanValue(b) == [NoValue EXCEPT !.type = "boolean", !.b = b]

StringValue(s) == [NoValue EXCEPT !.type = "string", !.s = s]

ListValue(l) == [NoValue EXCEPT !.type = "string[]", !.l = l]

\* Object.values(ExecutionRule): the enum is declared in ../interfaces
ExecutionRule ==
  {<<"b", "l", "o", "c", "k", "i", "n", "g">>,
   <<"n", "o", "n", "_", "b", "l", "o", "c", "k", "i", "n", "g">>,
   <<"s", "k", "i", "p", "p", "e", "d">>}

\* toBoolean (lines 214-228)
toBoolean(text) ==
  IF toLowerCase(text) = <<"t", "r", "u", "e">> \/ text = <<"1">> THEN BooleanValue(TRUE)
  ELSE IF toLowerCase(text) = <<"f", "a", "l", "s", "e">> \/ text = <<"0">> THEN BooleanValue(FALSE)
  ELSE NoValue

\* the value of a text of decimal digits
RECURSIVE decimal(_)
decimal(s) ==
  IF s = <<>> THEN 0
  ELSE 10 * decimal(SubSeq(s, 1, Len(s) - 1))
       + (CHOOSE d \in DOMAIN Digits : Digits[d] = s[Len(s)]) - 1

\* Number(text) for the texts drawn here: white space around the text is
\* skipped, an empty text is 0, decimal digits are their value, and a text with
\* any other character is NaN (no text drawn has a sign, a fraction, an
\* exponent, a 0x, 0o or 0b prefix or spells Infinity).
Number(text) ==
  LET t == trim(text)
  IN IF t = <<>> THEN NumberValue(0)
     ELSE IF \A i \in DOMAIN t : \E d \in DOMAIN Digits : Digits[d] = t[i]
     THEN NumberValue(decimal(t))
     ELSE NaN

\* toNumber (lines 230-242)
toNumber(text) ==
  IF trim(text) = <<>> THEN NoValue
  ELSE IF Number(text) = NaN THEN NoValue
  ELSE Number(text)

\* toExecutionRule (lines 244-254)
toExecutionRule(text) ==
  IF toLowerCase(text) \in ExecutionRule THEN StringValue(toLowerCase(text)) ELSE NoValue

\* An Error thrown by validateAndParseOverrides: the fixed part of its
\* message and the texts the message is built from.
NoOverrideError ==
  [message |-> "", key |-> <<>>, subKey |-> <<>>, closestKey |-> <<>>, value |-> <<>>]

InvalidValueError(message, value) ==
  [NoOverrideError EXCEPT !.message = message, !.value = value]

\* what parseOverrideValue does: it returns a value or throws an error
Parsed(value) == [value |-> value, error |-> NoOverrideError]

ParseError(error) == [value |-> NoValue, error |-> error]

\* parseOverrideValue (lines 319-346)
parseOverrideValue(value, type) ==
  CASE type = "boolean" ->
         IF toBoolean(value) # NoValue THEN Parsed(toBoolean(value))
         ELSE ParseError(InvalidValueError("Invalid boolean value: ${value}", value))
    [] type = "number" ->
         IF toNumber(value) # NoValue THEN Parsed(toNumber(value))
         ELSE ParseError(InvalidValueError("Invalid number value: ${value}", value))
    [] type = "string" -> Parsed(StringValue(trim(value)))
    [] type = "string[]" ->
         Parsed(ListValue([i \in DOMAIN split(value, ";") |-> trim(split(value, ";")[i])]))
    [] type = "ExecutionRule" ->
         IF toExecutionRule(value) # NoValue THEN Parsed(toExecutionRule(value))
         ELSE ParseError(InvalidValueError("Invalid ExecutionRule value: ${value}", value))
    [] OTHER -> ParseError(InvalidValueError("Unknown type: ${type}", value))

\* Math.min of three numbers
Min3(a, b, c) == IF a <= b /\ a <= c THEN a ELSE IF b <= c THEN b ELSE c

\* One row of the table of edit distances: row[j + 1] is the distance between
\* the first characters of a, up to c, and the first j characters of b.
RECURSIVE levenshteinRow(_, _, _, _)
levenshteinRow(prev, c, b, row) ==
  IF Len(row) = Len(b) + 1 THEN row
  ELSE LET j == Len(row)
           cell == Min3(prev[j + 1] + 1, row[j] + 1, prev[j] + (IF c = b[j] THEN 0 ELSE 1))
       IN IF cell >= 0 THEN levenshteinRow(prev, c, b, Append(row, cell)) ELSE <<>>

\* the table row by row, from the i-th character of a on
RECURSIVE levenshteinFrom(_, _, _, _)
levenshteinFrom(a, b, i, prev) ==
  IF i > Len(a) THEN prev[Len(b) + 1]
  ELSE LET row == levenshteinRow(prev, a[i], b, <<i>>)
       IN IF Len(row) > 0 THEN levenshteinFrom(a, b, i + 1, row) ELSE 0

\* levenshtein.get(a, b) of fast-levenshtein: the least number of characters
\* to insert, delete or replace to turn a into b
levenshtein(a, b) == levenshteinFrom(a, b, 1, [j \in 1..(Len(b) + 1) |-> j - 1])

\* allOverrideKeys.reduce((prev, curr) => ... < ... ? curr : prev) from its
\* i-th key on (lines 448-450)
RECURSIVE closestKeyFrom(_, _, _)
closestKeyFrom(prev, i, key) ==
  IF i > Len(allOverrideKeys) THEN prev
  ELSE LET curr == allOverrideKeys[i]
           next == IF levenshtein(curr, key) < levenshtein(prev, key) THEN curr ELSE prev
       IN IF next \in {curr, prev} THEN closestKeyFrom(next, i + 1, key) ELSE prev

\* a reduce without initial value starts from the first key
closestKey(key) == closestKeyFrom(allOverrideKeys[1], 2, key)

\* line 452: a closest key farther than this is not suggested
MaxSuggestionDistance == 5

\* the default branch of the switch (lines 447-456)
invalidKeyError(key) ==
  IF levenshtein(closestKey(key), key) > MaxSuggestionDistance
  THEN [NoOverrideError EXCEPT !.message = "Invalid key: ${key}", !.key = key]
  ELSE [NoOverrideError EXCEPT !.message = "Invalid key: ${key}. Did you mean: ${closestKey}?",
                               !.key = key, !.closestKey = closestKey(key)]

\* The accumulator: the fields set so far, each the path of a field of the
\* override object (its key and, below retry, basicAuth, cookies, headers and
\* variables, its sub-key) with its value.
assign(acc, key, subKey, value) ==
  {f \in acc : f.path # <<key, subKey>>} \cup {[path |-> <<key, subKey>>, value |-> value]}

\* acc[key][subKey] = parseOverrideValue(value, type): the reducer goes on with
\* acc, or throws the error
assignParsed(acc, key, subKey, value, type) ==
  LET parsed == parseOverrideValue(value, type)
  IN IF parsed.error # NoOverrideError THEN [acc |-> acc, error |-> parsed.error]
     ELSE [acc |-> assign(acc, key, subKey, parsed.value), error |-> NoOverrideError]

\* the reducer of validateAndParseOverrides (lines 353-460)
reduceOverride(acc, override) ==
  LET rawKey == matchOverride(override).rawKey
      value == matchOverride(override).value
      key == keyOf(rawKey)
      subKey == subKeyOf(rawKey)
  IN CASE key \in {Key.defaultStepTimeout, Key.pollingTimeout, Key.testTimeout} ->
            assignParsed(acc, key, <<>>, value, "number")
       [] key \in {Key.allowInsecureCertificates, Key.followRedirects} ->
            assignParsed(acc, key, <<>>, value, "boolean")
       [] key \in {Key.body, Key.bodyType, Key.startUrl, Key.startUrlSubstitutionRegex} ->
            assignParsed(acc, key, <<>>, value, "string")
       [] key \in {Key.deviceIds, Key.locations, Key.resourceUrlSubstitutionRegexes} ->
            assignParsed(acc, key, <<>>, value, "string[]")
       [] key = Key.executionRule ->
            assignParsed(acc, key, <<>>, value, "ExecutionRule")
       [] key = Key.retry ->
            IF subKey \in {<<"c", "o", "u", "n", "t">>, <<"i", "n", "t", "e", "r", "v", "a", "l">>}
            THEN assignParsed(acc, key, subKey, value, "number")
            ELSE [acc |-> acc, error |-> [NoOverrideError EXCEPT !.message = "Invalid subkey for ${key}",
                                                           !.key = key, !.subKey = subKey]]
       [] key = Key.basicAuth ->
            IF subKey \in {<<"u", "s", "e", "r", "n", "a", "m", "e">>, <<"p", "a", "s", "s", "w", "o", "r", "d">>}
            THEN assignParsed(acc, key, subKey, value, "string")
            ELSE [acc |-> acc, error |-> [NoOverrideError EXCEPT !.message = "Invalid subkey for ${key}",
                                                           !.key = key, !.subKey = subKey]]
       [] key = Key.cookies ->
            IF subKey # <<>>
            THEN IF subKey = <<"a", "p", "p", "e", "n", "d">>
                 THEN assignParsed(acc, key, <<"a", "p", "p", "e", "n", "d">>, value, "boolean")
                 ELSE [acc |-> acc, error |-> [NoOverrideError EXCEPT
                           !.message = "The path ${key}.${subKey} is invalid. Did you mean --override cookies=...?",
                           !.key = key, !.subKey = subKey]]
            ELSE assignParsed(acc, key, <<"v", "a", "l", "u", "e">>, value, "string")
       [] key \in {Key.headers, Key.variables} ->
            IF subKey # <<>>
            THEN [acc |-> assign(acc, key, subKey, StringValue(value)), error |-> NoOverrideError]
            ELSE [acc |-> acc, error |-> [NoOverrideError EXCEPT !.message = "No subkey found for ${key}",
                                                           !.key = key]]
       [] OTHER -> [acc |-> acc, error |-> invalidKeyError(key)]

\* the longest list of overrides is a list of MaxOverrides overrides
MaxOverrides == 2

\* The overrides drawn: key=value and key.subkey=value with each key of
\* allOverrideKeys, the same with other keys (one character from a key of
\* the list, 5 and 6 characters from the nearest, the empty key) and fewer
\* sub-keys and values, and two texts without an equal sign.
InputOverrides ==
  LET ValidKeys == {allOverrideKeys[i] : i \in DOMAIN allOverrideKeys}
      InvalidKeys == {<<"r", "e", "t", "r", "i">>, <<"B", "o", "d", "y">>, <<"t", "e", "s", "t", "T", "i", "m", "e", "o", "u", "t", "s">>, <<"q", "q", "q", "q", "q">>, <<"q", "q", "q", "q", "q", "q">>, <<>>}
      SubKeys == {<<"c", "o", "u", "n", "t">>, <<"i", "n", "t", "e", "r", "v", "a", "l">>, <<"u", "s", "e", "r", "n", "a", "m", "e">>, <<"p", "a", "s", "s", "w", "o", "r", "d">>, <<"a", "p", "p", "e", "n", "d">>, <<"x">>, <<"c", "o", "u", "n", "t", ".", "x">>, <<>>}
      Values == {<<>>, <<"5">>, <<" ", "1", "2", " ">>, <<"a", "b", "c">>, <<"t", "r", "u", "e">>, <<"T", "R", "U", "E">>, <<"1">>, <<"0">>, <<"f", "a", "l", "s", "e">>, <<"b", "l", "o", "c", "k", "i", "n", "g">>,
                 <<"S", "K", "I", "P", "P", "E", "D">>, <<" ", "a", " ", ";", " ", "b">>, <<"a", "=", "b">>, <<"a", "\n", "b">>}
  IN {key \o <<"=">> \o value : key \in ValidKeys, value \in Values}
     \cup {key \o <<".">> \o subKey \o <<"=">> \o value :
             key \in ValidKeys, subKey \in SubKeys, value \in Values}
     \cup {key \o <<"=">> \o value : key \in InvalidKeys, value \in {<<"5">>, <<"a", "\n", "b">>}}
     \cup {key \o <<".">> \o subKey \o <<"=">> \o value :
             key \in InvalidKeys, subKey \in {<<"c", "o", "u", "n", "t">>}, value \in {<<"5">>}}
     \cup {<<"b", "o", "d", "y">>, <<"r", "e", "t", "r", "i">>}

\* the overrides that come before the last one of a list
InputOverridesBefore == {<<"r", "e", "t", "r", "y", ".", "c", "o", "u", "n", "t", "=", "5">>, <<"l", "o", "c", "a", "t", "i", "o", "n", "s", "=", "a", ";", "b">>}

\* validateAndParseOverrides has parsed the first i overrides into acc
Parsing(i, acc) == [i |-> i, acc |-> acc, error |-> NoOverrideError, returned |-> FALSE]

\* the overrides argument is undefined, or a list of strings
OverridesInit ==
  /\ RunIdle
  /\ fn = "validateAndParseOverrides"
  /\ arg \in {[defined |-> FALSE, list |-> <<>>]} \cup
       {[defined |-> TRUE, list |-> before \o last] :
          before \in SeqsUpTo(InputOverridesBefore, MaxOverrides - 1),
          last \in {<<>>} \cup {<<override>> : override \in InputOverrides}}
  /\ ret = Parsing(0, {})

\* lines 349-351: if (!overrides) return {}
ReturnNoOverrides ==
  /\ fn = "validateAndParseOverrides"
  /\ ~arg.defined
  /\ ~ret.returned
  /\ ret' = [ret EXCEPT !.returned = TRUE]
  /\ UNCHANGED <<fn, arg, runVars>>

\* one call of the reducer that returns acc
ReduceOverride ==
  /\ fn = "validateAndParseOverrides"
  /\ arg.defined
  /\ ret.error = NoOverrideError
  /\ ret.i < Len(arg.list)
  /\ LET reduced == reduceOverride(ret.acc, arg.list[ret.i + 1])
     IN /\ reduced.error = NoOverrideError
        /\ ret' = Parsing(ret.i + 1, reduced.acc)
  /\ UNCHANGED <<fn, arg, runVars>>

\* one call of the reducer that throws: reduce is left, nothing is returned
ReduceOverrideThrows ==
  /\ fn = "validateAndParseOverrides"
  /\ arg.defined
  /\ ret.error = NoOverrideError
  /\ ret.i < Len(arg.list)
  /\ LET reduced == reduceOverride(ret.acc, arg.list[ret.i + 1])
     IN /\ reduced.error # NoOverrideError
        /\ ret' = [ret EXCEPT !.error = reduced.error]
  /\ UNCHANGED <<fn, arg, runVars>>

\* line 464: return parsedOverrides
ReturnParsedOverrides ==
  /\ fn = "validateAndParseOverrides"
  /\ arg.defined
  /\ ret.error = NoOverrideError
  /\ ret.i = Len(arg.list)
  /\ ~ret.returned
  /\ ret' = [ret EXCEPT !.returned = TRUE]
  /\ UNCHANGED <<fn, arg, runVars>>

OverridesNext ==
  \/ ReturnNoOverrides
  \/ ReduceOverride
  \/ ReduceOverrideThrows
  \/ ReturnParsedOverrides

SpecOverrides == OverridesInit /\ [][OverridesNext]_vars

----------------------------------------------------------------------------
(* Properties of validateAndParseOverrides. An override is read here as it *)
(* is written: key=value or key.subkey=value, the key ending at the first  *)
(* dot or equal sign and the value starting after the first equal sign.    *)

\* the keys of allOverrideKeys
ValidKeys == {allOverrideKeys[i] : i \in DOMAIN allOverrideKeys}

\* an override has been handled: reduced into acc, or it made the reducer throw
SomeHandled == arg.defined /\ (ret.i >= 1 \/ ret.error # NoOverrideError)

\* the override handled last
Handled ==
  IF ret.error # NoOverrideError THEN arg.list[ret.i + 1] ELSE arg.list[ret.i]

\* the text has the form key=value
IsKeyValue(override) == indexOf(override, "=") > 0

WrittenPath(override) == SubSeq(override, 1, indexOf(override, "=") - 1)

WrittenValue(override) == SubSeq(override, indexOf(override, "=") + 1, Len(override))

HasSubKey(override) == indexOf(WrittenPath(override), ".") > 0

WrittenKey(override) ==
  IF HasSubKey(override)
  THEN SubSeq(WrittenPath(override), 1, indexOf(WrittenPath(override), ".") - 1)
  ELSE WrittenPath(override)

\* all that follows the first dot of the path
WrittenSubKey(override) ==
  SubSeq(WrittenPath(override), indexOf(WrittenPath(override), ".") + 1,
         Len(WrittenPath(override)))

OnOneLine(override) == \A i \in DOMAIN override : override[i] \notin LineTerminators

\* the distance from a key to the nearest key of allOverrideKeys
LeastDistance(key) ==
  CHOOSE d \in 0..(Len(key) + 30) :
    /\ \E i \in DOMAIN allOverrideKeys : levenshtein(allOverrideKeys[i], key) = d
    /\ \A i \in DOMAIN allOverrideKeys : levenshtein(allOverrideKeys[i], key) >= d

\* what the claim of the unknown keys asks of the override handled last
UnknownKeyFails(override) ==
  (IsKeyValue(override) /\ WrittenKey(override) \notin ValidKeys) =>
    /\ ret.error # NoOverrideError
    /\ ~ret.returned
    /\ IF LeastDistance(WrittenKey(override)) <= MaxSuggestionDistance
       THEN /\ ret.error.message = "Invalid key: ${key}. Did you mean: ${closestKey}?"
            /\ ret.error.closestKey \in ValidKeys
            /\ levenshtein(ret.error.closestKey, WrittenKey(override))
                 = LeastDistance(WrittenKey(override))
       ELSE /\ ret.error.message = "Invalid key: ${key}"
            /\ ret.error.closestKey = <<>>

\* C14: every override whose key is not in allOverrideKeys makes
\* validateAndParseOverrides fail, and no override object is returned; the
\* error names a key of allOverrideKeys at the least edit distance from the
\* key written when that distance is at most 5, and is the invalid-key error
\* without a suggestion when it is more than 5.
C14_UnknownKeyNamesClosest == SomeHandled => UnknownKeyFails(Handled)

\* the same for the overrides written on one line, which the regular
\* expression of line 354 splits at their first equal sign
UnknownKeyNamesClosestOnOneLine ==
  (SomeHandled /\ OnOneLine(Handled)) => UnknownKeyFails(Handled)

\* qqqqq is 5 characters from retry and from body, and retry is suggested
UnknownKeySuggested ==
  /\ SomeHandled
  /\ Handled = <<"q", "q", "q", "q", "q", "=", "5">>
  /\ ret.error.closestKey = Key.retry

\* qqqqqq is 6 characters from the nearest key, and nothing is suggested
UnknownKeyNotSuggested ==
  /\ SomeHandled
  /\ Handled = <<"q", "q", "q", "q", "q", "q", "=", "5">>
  /\ ret.error.message = "Invalid key: ${key}"

\* the keys that take a value and no sub-key
ScalarKeys ==
  {Key.defaultStepTimeout, Key.pollingTimeout, Key.testTimeout, Key.allowInsecureCertificates,
   Key.followRedirects, Key.body, Key.bodyType, Key.startUrl, Key.startUrlSubstitutionRegex,
   Key.deviceIds, Key.locations, Key.resourceUrlSubstitutionRegexes, Key.executionRule}

\* the declared type of a scalar key
DeclaredType(key) ==
  CASE key \in {Key.defaultStepTimeout, Key.pollingTimeout, Key.testTimeout} -> "number"
    [] key \in {Key.allowInsecureCertificates, Key.followRedirects} -> "boolean"
    [] key \in {Key.body, Key.bodyType, Key.startUrl, Key.startUrlSubstitutionRegex} -> "string"
    [] key \in {Key.deviceIds, Key.locations, Key.resourceUrlSubstitutionRegexes} -> "string[]"
    [] key = Key.executionRule -> "ExecutionRule"

\* what the claim of the scalar keys asks of the override handled last
ScalarKeyCoerced(override) ==
  (IsKeyValue(override) /\ ~HasSubKey(override) /\ WrittenKey(override) \in ScalarKeys) =>
    LET key == WrittenKey(override)
        coerced == parseOverrideValue(WrittenValue(override), DeclaredType(key))
    IN IF coerced.error = NoOverrideError
       THEN /\ ret.error = NoOverrideError
            /\ [path |-> <<key, <<>>>>, value |-> coerced.value] \in ret.acc
       ELSE /\ ret.error = coerced.error
            /\ ret.error.value = WrittenValue(override)
            /\ ~ret.returned
            /\ \A f \in ret.acc : f.path # <<key, <<>>>>

\* C15: for every override key=value whose key is a scalar key of
\* allOverrideKeys the field of that key is set to the value coerced to the
\* key's declared type; when the value cannot be coerced an error with the
\* value in its message is raised and the key has no field.
C15_ScalarValuesCoerced == SomeHandled => ScalarKeyCoerced(Handled)

\* the same for the overrides written on one line
ScalarValuesCoercedOnOneLine ==
  (SomeHandled /\ OnOneLine(Handled)) => ScalarKeyCoerced(Handled)

\* the coercions, one example for each declared type
CoercionExamples ==
  /\ parseOverrideValue(<<" ", "1", "2", " ">>, "number") = Parsed(NumberValue(12))
  /\ parseOverrideValue(<<>>, "number").error.message = "Invalid number value: ${value}"
  /\ parseOverrideValue(<<"a", "b", "c">>, "number").error.value = <<"a", "b", "c">>
  /\ parseOverrideValue(<<"T", "R", "U", "E">>, "boolean") = Parsed(BooleanValue(TRUE))
  /\ parseOverrideValue(<<"0">>, "boolean") = Parsed(BooleanValue(FALSE))
  /\ parseOverrideValue(<<"a", "b", "c">>, "boolean").error.message = "Invalid boolean value: ${value}"
  /\ parseOverrideValue(<<" ", "a", " ", ";", " ", "b">>, "string") = Parsed(StringValue(<<"a", " ", ";", " ", "b">>))
  /\ parseOverrideValue(<<" ", "a", " ", ";", " ", "b">>, "string[]") = Parsed(ListValue(<<<<"a">>, <<"b">>>>))
  /\ parseOverrideValue(<<"S", "K", "I", "P", "P", "E", "D">>, "ExecutionRule") = Parsed(StringValue(<<"s", "k", "i", "p", "p", "e", "d">>))
  /\ parseOverrideValue(<<"5">>, "ExecutionRule").error.value = <<"5">>
  /\ levenshtein(<<"k", "i", "t", "t", "e", "n">>, <<"s", "i", "t", "t", "i", "n", "g">>) = 3
  /\ levenshtein(<<>>, Key.body) = 4
  /\ levenshtein(Key.retry, <<"r", "e", "t", "r", "i">>) = 1

\* the sub-keys each key takes
AllowedSubKey(key, subKey) ==
  \/ key = Key.retry /\ subKey \in {<<"c", "o", "u", "n", "t">>, <<"i", "n", "t", "e", "r", "v", "a", "l">>}
  \/ key = Key.basicAuth /\ subKey \in {<<"u", "s", "e", "r", "n", "a", "m", "e">>, <<"p", "a", "s", "s", "w", "o", "r", "d">>}
  \/ key = Key.cookies /\ subKey = <<"a", "p", "p", "e", "n", "d">>
  \/ key \in {Key.headers, Key.variables} /\ subKey # <<>>

\* what the claim of the sub-keys asks of the override handled last
SubKeyValidated(override) ==
  IsKeyValue(override) =>
    /\ (HasSubKey(override)
         /\ ~AllowedSubKey(WrittenKey(override), WrittenSubKey(override))) =>
           ret.error # NoOverrideError
    /\ (~HasSubKey(override)
         /\ WrittenKey(override) \in {Key.retry, Key.basicAuth, Key.headers, Key.variables}) =>
           ret.error # NoOverrideError

\* C16: an override key.subkey=value is accepted only if the key takes
\* sub-keys and the sub-key is one of its own (retry: count, interval;
\* basicAuth: username, password; cookies: append; headers and variables: any
\* name); with any other key and sub-key, and for retry, basicAuth, headers or
\* variables without sub-key, an error is raised.
C16_SubKeysValidated == SomeHandled => SubKeyValidated(Handled)

\* the same for the keys that take sub-keys, the sub-key being what is
\* written between the first dot and the second
StructuredSubKeysValidated ==
  (SomeHandled /\ IsKeyValue(Handled)
     /\ WrittenKey(Handled) \in {Key.retry, Key.basicAuth, Key.cookies, Key.headers, Key.variables}) =>
    /\ (HasSubKey(Handled)
         /\ ~AllowedSubKey(WrittenKey(Handled), split(WrittenSubKey(Handled), ".")[1])
         /\ ~(WrittenKey(Handled) = Key.cookies /\ WrittenSubKey(Handled) = <<>>)) =>
           ret.error # NoOverrideError
    /\ (~HasSubKey(Handled) /\ WrittenKey(Handled) # Key.cookies) =>
           ret.error # NoOverrideError

\* body.count=5 has been accepted, and has set body to 5
ScalarKeyWithSubKeyAccepted ==
  /\ SomeHandled
  /\ Handled = <<"b", "o", "d", "y", ".", "c", "o", "u", "n", "t", "=", "5">>
  /\ ret.error = NoOverrideError
  /\ [path |-> <<Key.body, <<>>>>, value |-> StringValue(<<"5">>)] \in ret.acc

----------------------------------------------------------------------------
(* Results skipped by selective rerun (src/commands/dependencies/upload.ts, *)
(* lines 195-212). The two functions are in the sources; the poller that    *)
(* uses them is not, and is modelled as section 4.5 of the specification    *)
(* describes it: a result is resolved, once the result its id leads to is   *)
(* terminal, with the status of that result.                                *)

\* a batch has up to MaxBatch results
MaxBatch == 2

ResultIds == {"r1", "r2", "r3"}

\* ResultInBatch: selective_rerun is absent (decision ""), or has decision
\* run, or decision skip and the id of the linked result
ResultsInBatch ==
  {r \in [result_id : ResultIds, decision : {"", "run", "skip"},
          linked_result_id : ResultIds \cup {""}] :
     IF r.decision = "skip"
     THEN r.linked_result_id \in ResultIds \ {r.result_id}
     ELSE r.linked_result_id = ""}

\* the batches of results with different ids
Batches ==
  {b \in SeqsUpTo(ResultsInBatch, MaxBatch) :
     b # <<>> /\ \A i, j \in DOMAIN b : i # j => b[i].result_id # b[j].result_id}

\* isResultInBatchSkippedBySelectiveRerun (lines 195-199)
isResultInBatchSkippedBySelectiveRerun(result) == result.decision = "skip"

\* the variant of getResultIdOrLinkedResultId that returns the result's own id
getResultIdOnly(result) == result.result_id

\* getResultIdOrLinkedResultId (lines 206-212)
getResultIdOrLinkedResultId(result) ==
  IF isResultInBatchSkippedBySelectiveRerun(result)
  THEN result.linked_result_id
  ELSE result.result_id

\* a status the backend does not change any more
IsTerminal(status) == status # "in_progress"

\* a result of the batch the poller has not resolved yet
NotResolved == [id |-> "", status |-> ""]

\* The backend knows a status for every result id: skipped for the results
\* of the batch it skipped, in_progress for those it runs, and any status of
\* a result that was run for the results of earlier batches.
PollInit ==
  /\ RunIdle
  /\ fn = "getResultIdOrLinkedResultId"
  /\ arg \in Batches
  /\ ret \in {r \in [status : [ResultIds -> {"in_progress", "passed", "failed", "skipped"}],
                     final : {[i \in DOMAIN arg |-> NotResolved]}] :
                \A id \in ResultIds :
                  IF \E i \in DOMAIN arg : arg[i].result_id = id
                  THEN r.status[id] =
                         IF \E i \in DOMAIN arg : arg[i].result_id = id /\ arg[i].decision = "skip"
                         THEN "skipped" ELSE "in_progress"
                  ELSE r.status[id] # "skipped"}

\* the backend finishes a result
ResultFinishes ==
  /\ fn = "getResultIdOrLinkedResultId"
  /\ \E id \in ResultIds, status \in {"passed", "failed"} :
       /\ ret.status[id] = "in_progress"
       /\ ret' = [ret EXCEPT !.status[id] = status]
  /\ UNCHANGED <<fn, arg, runVars>>

\* the poller resolves a result of the batch: it looks up the id
\* getResultIdOrLinkedResultId gives and, that result being terminal, takes
\* its status
ResolveResult ==
  /\ fn = "getResultIdOrLinkedResultId"
  /\ \E i \in DOMAIN arg :
       LET id == getResultIdOrLinkedResultId(arg[i])
       IN /\ ret.final[i] = NotResolved
          /\ IsTerminal(ret.status[id])
          /\ ret' = [ret EXCEPT !.final[i] = [id |-> id, status |-> ret.status[id]]]
  /\ UNCHANGED <<fn, arg, runVars>>

PollNext ==
  \/ ResultFinishes
  \/ ResolveResult

SpecPoll == PollInit /\ [][PollNext]_vars

\* C17: a result of the batch with selective_rerun.decision = 'skip' is
\* resolved through the result it links to: getResultIdOrLinkedResultId gives
\* its linked_result_id, and the result_id of every other result, and once
\* resolved its final status is the status of the linked result, which is
\* terminal.
C17_SkippedResolvedThroughLink ==
  \A i \in DOMAIN arg :
    /\ getResultIdOrLinkedResultId(arg[i]) =
         IF arg[i].decision = "skip" THEN arg[i].linked_result_id ELSE arg[i].result_id
    /\ (arg[i].decision = "skip" /\ ret.final[i] # NotResolved) =>
         /\ IsTerminal(ret.status[arg[i].linked_result_id])
         /\ ret.final[i].status = ret.status[arg[i].linked_result_id]
    /\ (arg[i].decision # "skip" /\ ret.final[i] # NotResolved) =>
         ret.final[i].status = ret.status[arg[i].result_id]

\* r1 was skipped and links to r2, a result of the same batch that was run
\* and failed: r1 is resolved as failed
C17_Witness ==
  /\ Len(arg) = 2
  /\ arg[1] = [result_id |-> "r1", decision |-> "skip", linked_result_id |-> "r2"]
  /\ arg[2].result_id = "r2" /\ arg[2].decision = "run"
  /\ ret.status["r1"] = "skipped"
  /\ ret.status["r2"] = "failed"
  /\ ret.final[1] = [id |-> "r2", status |-> "failed"]

----------------------------------------------------------------------------
(* The deployment tags of DeploymentMarkCommand. The command itself        *)
(* (../mark) is not among the sources, its tests are (unnamed/part_000):   *)
(* createJobDeploymentTags is modelled from what they expect, one tag for  *)
(* each field set on the command after the tag every deployment has. A tag *)
(* name:value is its name and the pieces of its value. The tests set one   *)
(* field at a time and so do not tell the order of the tags of several     *)
(* fields, which is left open here.                                        *)

\* the fields of a command none of which is set
NoFields ==
  [isRollback |-> FALSE, env |-> "", revision |-> "", service |-> "", tags |-> <<>>]

\* the commands: each field is set, or not
DeploymentMarkCommands ==
  [isRollback : BOOLEAN, env : {"", "test"}, revision : {"", "1.0.0"},
   service : {"", "payment-service"},
   tags : {<<>>, <<"team:backend">>, <<"team:backend", "image:my_image">>}]

\* the variant of join that leaves the separator out
joinWithoutSeparator(list, separator) == list

\* list.join(separator), piece by piece
RECURSIVE join(_, _)
join(list, separator) ==
  IF Len(list) <= 1 THEN list
  ELSE <<Head(list), separator>> \o join(Tail(list), separator)

\* the tags of the fields set on a command
fieldTags(command) ==
  {[name |-> "datadog_cd_visibility.is_rollback", value |-> <<"true">>] :
     x \in {command.isRollback} \ {FALSE}}
  \cup {[name |-> "datadog_cd_visibility.env", value |-> <<x>>] : x \in {command.env} \ {""}}
  \cup {[name |-> "datadog_cd_visibility.revision", value |-> <<x>>] :
          x \in {command.revision} \ {""}}
  \cup {[name |-> "datadog_cd_visibility.service", value |-> <<x>>] :
          x \in {command.service} \ {""}}
  \cup {[name |-> "datadog_cd_visibility.custom_tags", value |-> join(x, ",")] :
          x \in {command.tags} \ {<<>>}}

\* the lists that have each element of a set once
Orderings(S) ==
  {o \in [1..Cardinality(S) -> S] : \A i, j \in DOMAIN o : i # j => o[i] # o[j]}

MarkInit ==
  /\ RunIdle
  /\ fn \in {"createJobDeploymentTags", "createPipelineDeploymentTags"}
  /\ arg \in IF fn = "createJobDeploymentTags" THEN DeploymentMarkCommands ELSE {NoFields}
  /\ ret = NotReturned

createJobDeploymentTags ==
  /\ fn = "createJobDeploymentTags"
  /\ ~ret.returned
  /\ \E tags \in Orderings(fieldTags(arg)) :
       ret' = ReturnedValue(
                <<[name |-> "datadog_cd_visibility.is_deployment", value |-> <<"true">>]>>
                \o tags)
  /\ UNCHANGED <<fn, arg, runVars>>

createPipelineDeploymentTags ==
  /\ fn = "createPipelineDeploymentTags"
  /\ ~ret.returned
  /\ ret' = ReturnedValue(<<[name |-> "ci.pipeline.contains_deployment", value |-> <<"true">>]>>)
  /\ UNCHANGED <<fn, arg, runVars>>

MarkNext ==
  \/ createJobDeploymentTags
  \/ createPipelineDeploymentTags

SpecMark == MarkInit /\ [][MarkNext]_vars

\* the tags of a list with the given name
TagsNamed(tags, name) == {i \in DOMAIN tags : tags[i].name = name}

\* a list has one tag name:value, and no other tag of that name, if the field
\* is set, and none of that name if it is not
OneTagIfSet(tags, isSet, name, value) ==
  IF isSet
  THEN /\ Cardinality(TagsNamed(tags, name)) = 1
       /\ \A i \in TagsNamed(tags, name) : i > 1 /\ tags[i].value = value
  ELSE TagsNamed(tags, name) = {}

\* C18: createJobDeploymentTags returns datadog_cd_visibility.is_deployment:true
\* first, then one tag for each of is_rollback, env, revision, service and
\* custom_tags that is set on the command, the custom tags joined by commas,
\* and no tag for a field that is not set; createPipelineDeploymentTags
\* returns the one tag ci.pipeline.contains_deployment:true.
C18_DeploymentTags ==
  /\ (fn = "createJobDeploymentTags" /\ ret.returned) =>
       /\ ret.value[1] = [name |-> "datadog_cd_visibility.is_deployment", value |-> <<"true">>]
       /\ TagsNamed(ret.value, "datadog_cd_visibility.is_deployment") = {1}
       /\ OneTagIfSet(ret.value, arg.isRollback, "datadog_cd_visibility.is_rollback", <<"true">>)
       /\ OneTagIfSet(ret.value, arg.env # "", "datadog_cd_visibility.env", <<arg.env>>)
       /\ OneTagIfSet(ret.value, arg.revision # "", "datadog_cd_visibility.revision",
                      <<arg.revision>>)
       /\ OneTagIfSet(ret.value, arg.service # "", "datadog_cd_visibility.service",
                      <<arg.service>>)
       /\ OneTagIfSet(ret.value, arg.tags # <<>>, "datadog_cd_visibility.custom_tags",
                      IF Len(arg.tags) = 2 THEN <<arg.tags[1], ",", arg.tags[2]>> ELSE arg.tags)
       /\ \A i \in DOMAIN ret.value :
            ret.value[i].name \in
              {"datadog_cd_visibility.is_deployment", "datadog_cd_visibility.is_rollback",
               "datadog_cd_visibility.env", "datadog_cd_visibility.revision",
               "datadog_cd_visibility.service", "datadog_cd_visibility.custom_tags"}
  /\ (fn = "createPipelineDeploymentTags" /\ ret.returned) =>
       ret.value = <<[name |-> "ci.pipeline.contains_deployment", value |-> <<"true">>]>>

\* the command of the test of the custom tags: team:backend and image:my_image
\* are in one tag, joined by a comma, after the deployment tag
C18_Witness ==
  /\ fn = "createJobDeploymentTags"
  /\ arg = [NoFields EXCEPT !.tags = <<"team:backend", "image:my_image">>]
  /\ ret.returned
  /\ ret.value =
       <<[name |-> "datadog_cd_visibility.is_deployment", value |-> <<"true">>],
         [name |-> "datadog_cd_visibility.custom_tags",
          value |-> <<"team:backend", ",", "image:my_image">>]>>

----------------------------------------------------------------------------
(* UploadCommand of commands/dependencies/upload.ts (lines 18-143). arg is *)
(* the command as clipanion and the environment filled it: an option or a  *)
(* key that is not given is "", which `!` takes for missing as it does     *)
(* undefined; exists is what fs.existsSync answers for the normalized      *)
(* path. ret is the execution: where it is suspended, the code it          *)
(* returned, and the calls it made on its collaborators, in order.         *)
(* api.uploadDependencies is a request to the backend: it resolves or      *)
(* rejects.                                                                *)

SUPPORTED_SOURCES == {"snyk"}
INVALID_INPUT_EXIT_CODE == 1
MISSING_FILE_EXIT_CODE == 2
UPLOAD_ERROR_EXIT_CODE == 3

\* execute ran off its end (line 121): it returns undefined
NoExitCode == 0

UploadCommands ==
  [source : {"", "snyk", "npm"}, releaseVersion : {"", "1.234"}, service : {"", "my-service"},
   appKey : {"", "app"}, apiKey : {"", "api"}, exists : BOOLEAN, dryRun : BOOLEAN]

\* a call made by the command: on stderr and stdout, what is written
Did(on, what) == [on |-> on, what |-> what]

\* the variant of the validation that looks at the service before the source
invalidInputServiceFirst(command) ==
  IF command.service = "" THEN "--service"
  ELSE IF command.source = "" THEN "--source"
  ELSE IF command.source \notin SUPPORTED_SOURCES THEN "Unsupported --source"
  ELSE IF command.releaseVersion = "" THEN "--release-version"
  ELSE IF command.appKey = "" THEN "DATADOG_APP_KEY"
  ELSE IF command.apiKey = "" THEN "DATADOG_API_KEY"
  ELSE ""

\* lines 52-84: what the first check that fails writes about, "" when all pass
invalidInput(command) ==
  IF command.source = "" THEN "--source"
  ELSE IF command.source \notin SUPPORTED_SOURCES THEN "Unsupported --source"
  ELSE IF command.releaseVersion = "" THEN "--release-version"
  ELSE IF command.service = "" THEN "--service"
  ELSE IF command.appKey = "" THEN "DATADOG_APP_KEY"
  ELSE IF command.apiKey = "" THEN "DATADOG_API_KEY"
  ELSE ""

\* the variant of uploadDependencies that does not look at dryRun
uploadDependenciesAlways(command) ==
  <<Did("stdout", "renderUpload"), Did("api", "uploadDependencies")>>

\* lines 123-134: uploadDependencies up to its return or its await
uploadDependencies(command) ==
  IF command.dryRun
  THEN <<Did("stdout", "renderDryRunUpload")>>
  ELSE <<Did("stdout", "renderUpload"), Did("api", "uploadDependencies")>>

\* lines 109-113 and 119: the end of execute after uploadDependencies resolved
uploaded ==
  <<Did("stdout", "renderSuccessfulCommand"), Did("metricsLogger", "gauge duration"),
    Did("metricsLogger", "flush")>>

Executing(at, code, log) == [pc |-> at, code |-> code, calls |-> log]

UploadInit ==
  /\ RunIdle
  /\ fn = "UploadCommand.execute"
  /\ arg \in UploadCommands
  /\ ret = Executing("execute", NoExitCode, <<>>)

\* lines 50-108 and 123-134: execute up to its return or the await of line 134
execute ==
  /\ fn = "UploadCommand.execute"
  /\ ret.pc = "execute"
  /\ ret' =
       IF invalidInput(arg) # ""
       THEN Executing("returned", INVALID_INPUT_EXIT_CODE, <<Did("stderr", invalidInput(arg))>>)
       ELSE IF ~arg.exists
       THEN Executing("returned", MISSING_FILE_EXIT_CODE,
                      <<Did("fs", "existsSync"), Did("stderr", "Cannot find file")>>)
       ELSE LET log == <<Did("fs", "existsSync"), Did("stdout", "renderCommandInfo")>>
                         \o uploadDependencies(arg)
            IN IF log[Len(log)].on = "api"
               THEN Executing("api.uploadDependencies", NoExitCode, log)
               ELSE Executing("returned", NoExitCode, log \o uploaded)
  /\ UNCHANGED <<fn, arg, runVars>>

\* lines 135 and 109-121: api.uploadDependencies resolved
uploadDependenciesResolves ==
  /\ fn = "UploadCommand.execute"
  /\ ret.pc = "api.uploadDependencies"
  /\ ret' = Executing("returned", NoExitCode,
                      ret.calls \o <<Did("metricsLogger", "increment success")>> \o uploaded)
  /\ UNCHANGED <<fn, arg, runVars>>

\* lines 136-141 and 114-120: api.uploadDependencies rejected
uploadDependenciesRejects ==
  /\ fn = "UploadCommand.execute"
  /\ ret.pc = "api.uploadDependencies"
  /\ ret' = Executing("returned", UPLOAD_ERROR_EXIT_CODE,
                      ret.calls \o <<Did("stdout", "renderFailedUpload"),
                                     Did("metricsLogger", "increment failed"),
                                     Did("stderr", "error.message"),
                                     Did("metricsLogger", "flush")>>)
  /\ UNCHANGED <<fn, arg, runVars>>

SpecUpload ==
  UploadInit /\ [][execute \/ uploadDependenciesResolves \/ uploadDependenciesRejects]_vars

\* the calls of an execution on one collaborator
DidOn(on) == {i \in DOMAIN ret.calls : ret.calls[i].on = on}

\* every input validation passes on the command
InputValid ==
  /\ arg.source # ""
  /\ arg.source = "snyk"
  /\ arg.releaseVersion # ""
  /\ arg.service # ""
  /\ arg.appKey # ""
  /\ arg.apiKey # ""

\* C22: api.uploadDependencies is called at most once in an execution, and
\* only when every input validation passed (source given and supported,
\* release version, service, app key and API key given), the dependencies
\* file exists and dryRun is false.
C22_UploadOnlyWhenValid ==
  /\ Cardinality(DidOn("api")) <= 1
  /\ DidOn("api") # {} => InputValid /\ arg.exists /\ ~arg.dryRun
  /\ \A i \in DidOn("api") : ret.calls[i].what = "uploadDependencies"

\* a valid command on an existing file that is no dry run: one upload
C22_Witness ==
  /\ InputValid /\ arg.exists /\ ~arg.dryRun
  /\ ret.pc = "returned"
  /\ Cardinality(DidOn("api")) = 1

\* the checks in the order claimed, each with what it writes when it fails
InputChecks ==
  <<[passes |-> arg.source # "", writes |-> "--source"],
    [passes |-> arg.source = "snyk", writes |-> "Unsupported --source"],
    [passes |-> arg.releaseVersion # "", writes |-> "--release-version"],
    [passes |-> arg.service # "", writes |-> "--service"],
    [passes |-> arg.appKey # "", writes |-> "DATADOG_APP_KEY"],
    [passes |-> arg.apiKey # "", writes |-> "DATADOG_API_KEY"]>>

\* the checks that fail on the command
FailingChecks == {i \in DOMAIN InputChecks : ~InputChecks[i].passes}

\* the upload has been asked for and has failed
UploadFailed == \E i \in DOMAIN ret.calls : ret.calls[i] = Did("stdout", "renderFailedUpload")

\* C23: execute checks source given, source supported, release version,
\* service, app key and API key in this order and returns 1 at the first
\* check that fails, having written about that check only and without
\* looking at the file; when all pass it looks at the file and returns 2 if
\* it is missing; a failed upload returns 3; a successful upload and a dry
\* run return no code.
C23_ExitCodes ==
  ret.pc = "returned" =>
    IF FailingChecks # {}
    THEN /\ ret.code = INVALID_INPUT_EXIT_CODE
         /\ \E i \in FailingChecks :
              /\ \A j \in FailingChecks : i <= j
              /\ ret.calls = <<Did("stderr", InputChecks[i].writes)>>
    ELSE /\ ret.calls[1] = Did("fs", "existsSync")
         /\ IF ~arg.exists
            THEN /\ ret.code = MISSING_FILE_EXIT_CODE
                 /\ DidOn("api") = {}
                 /\ Len(ret.calls) = 2
            ELSE IF UploadFailed
            THEN /\ ret.code = UPLOAD_ERROR_EXIT_CODE
                 /\ ~arg.dryRun
                 /\ DidOn("api") # {}
            ELSE /\ ret.code = NoExitCode
                 /\ arg.dryRun <=> DidOn("api") = {}

\* a command without service and without keys on a missing file: 1, for the
\* service, and the file was not looked at
C23_Witness ==
  /\ ret.pc = "returned"
  /\ ret.code = INVALID_INPUT_EXIT_CODE
  /\ arg.source = "snyk" /\ arg.releaseVersion # ""
  /\ arg.service = "" /\ arg.appKey = "" /\ arg.apiKey = "" /\ ~arg.exists
  /\ ret.calls = <<Did("stderr", "--service")>>

----------------------------------------------------------------------------
(* getCIEnv of helpers/ci.ts (lines 560-595). arg is process.env, a        *)
(* function from the names of the variables that are set to their values;  *)
(* a name is a sequence of characters, as the override keys are. The       *)
(* variables the providers are detected by are absent, empty or "true";    *)
(* the others, when set, hold "v".                                         *)

\* the names of the environments explored
EnvName ==
  [CIRCLECI |-> <<"C", "I", "R", "C", "L", "E", "C", "I">>,
   GITLAB_CI |-> <<"G", "I", "T", "L", "A", "B", "_", "C", "I">>,
   GITHUB_ACTIONS |-> <<"G", "I", "T", "H", "U", "B", "_", "A", "C", "T", "I", "O", "N", "S">>,
   GITHUB_ACTION |-> <<"G", "I", "T", "H", "U", "B", "_", "A", "C", "T", "I", "O", "N">>,
   BUILDKITE |-> <<"B", "U", "I", "L", "D", "K", "I", "T", "E">>,
   CIRCLE_JOB |-> <<"C", "I", "R", "C", "L", "E", "_", "J", "O", "B">>,
   CIRCLE_TOKEN |-> <<"C", "I", "R", "C", "L", "E", "_", "T", "O", "K", "E", "N">>,
   CI_JOB_ID |-> <<"C", "I", "_", "J", "O", "B", "_", "I", "D">>,
   CI_bypass |-> <<"C", "I", "_", "b", "y", "p", "a", "s", "s">>,
   GITHUB_Secret |-> <<"G", "I", "T", "H", "U", "B", "_", "S", "e", "c", "r", "e", "t">>,
   BUILDKITE_JOB |-> <<"B", "U", "I", "L", "D", "K", "I", "T", "E", "_", "J", "O", "B">>,
   BUILDKITE_API_KEY |-> <<"B", "U", "I", "L", "D", "K", "I", "T", "E", "_", "A", "P", "I", "_", "K", "E", "Y">>,
   ci_JOB |-> <<"c", "i", "_", "J", "O", "B">>]

ProcessEnvs ==
  LET DetectedBy == {EnvName.CIRCLECI, EnvName.GITLAB_CI, EnvName.GITHUB_ACTIONS,
                     EnvName.GITHUB_ACTION, EnvName.BUILDKITE}
      Others == {EnvName[n] : n \in DOMAIN EnvName} \ DetectedBy
      Merge(d, o) == [n \in DOMAIN d \cup DOMAIN o |-> IF n \in DOMAIN d THEN d[n] ELSE o[n]]
  IN {Merge(d, o) :
        d \in UNION {[D -> {"", "true"}] : D \in SUBSET DetectedBy},
        o \in UNION {[O -> {"v"}] : O \in SUBSET Others}}

\* key.startsWith(prefix)
startsWith(key, prefix) ==
  /\ Len(key) >= Len(prefix)
  /\ SubSeq(key, 1, Len(prefix)) = prefix

\* the variant of the test of line 594 without the i flag
testCaseSensitive(key) ==
  \E word \in {<<"P", "A", "S", "S">>, <<"T", "O", "K", "E", "N">>, <<"S", "E", "C", "R", "E", "T">>, <<"K", "E", "Y">>} :
    \E i \in 1..(Len(key) - Len(word) + 1) : SubSeq(key, i, i + Len(word) - 1) = word

\* /(PASS)|(TOKEN)|(SECRET)|(KEY)/i.test(key): one of the words is in key at
\* some position, letters compared whatever their case
test(key) ==
  \E word \in {<<"P", "A", "S", "S">>, <<"T", "O", "K", "E", "N">>, <<"S", "E", "C", "R", "E", "T">>, <<"K", "E", "Y">>} :
    \E i \in 1..(Len(key) - Len(word) + 1) :
      toLowerCase(SubSeq(key, i, i + Len(word) - 1)) = toLowerCase(word)

\* lines 592-595: the entries of process.env kept by the filter, as an object
getEnvVars(processEnv, prefix) ==
  [key \in {k \in DOMAIN processEnv : startsWith(k, prefix) /\ ~test(k)} |-> processEnv[key]]

\* if (process.env.X): X is set and not empty
isSet(processEnv, name) == name \in DOMAIN processEnv /\ processEnv[name] # ""

CIEnvInit ==
  /\ RunIdle
  /\ fn = "getCIEnv"
  /\ arg \in ProcessEnvs
  /\ ret = [status |-> "", provider |-> "", ciEnv |-> [k \in {} |-> ""]]

\* lines 560-590
getCIEnv ==
  /\ fn = "getCIEnv"
  /\ ret.status = ""
  /\ ret' =
       IF isSet(arg, EnvName.CIRCLECI)
       THEN [status |-> "returned", provider |-> "circleci",
             ciEnv |-> getEnvVars(arg, <<"C", "I", "R", "C", "L", "E", "_">>)]
       ELSE IF isSet(arg, EnvName.GITLAB_CI)
       THEN [status |-> "returned", provider |-> "gitlab",
             ciEnv |-> getEnvVars(arg, <<"C", "I", "_">>)]
       ELSE IF isSet(arg, EnvName.GITHUB_ACTIONS) \/ isSet(arg, EnvName.GITHUB_ACTION)
       THEN [status |-> "returned", provider |-> "github",
             ciEnv |-> getEnvVars(arg, <<"G", "I", "T", "H", "U", "B", "_">>)]
       ELSE IF isSet(arg, EnvName.BUILDKITE)
       THEN [status |-> "returned", provider |-> "buildkite",
             ciEnv |-> getEnvVars(arg, <<"B", "U", "I", "L", "D", "K", "I", "T", "E", "_">>)]
       ELSE [status |-> "thrown", provider |-> "", ciEnv |-> ret.ciEnv]
  /\ UNCHANGED <<fn, arg, runVars>>

SpecCIEnv == CIEnvInit /\ [][getCIEnv]_vars

\* the providers in the order claimed: what each is detected by, its name
\* and the names of the explored variables that bear its prefix
Providers ==
  <<[by |-> {EnvName.CIRCLECI}, provider |-> "circleci",
     prefixed |-> {EnvName.CIRCLE_JOB, EnvName.CIRCLE_TOKEN}],
    [by |-> {EnvName.GITLAB_CI}, provider |-> "gitlab",
     prefixed |-> {EnvName.CI_JOB_ID, EnvName.CI_bypass}],
    [by |-> {EnvName.GITHUB_ACTIONS, EnvName.GITHUB_ACTION}, provider |-> "github",
     prefixed |-> {EnvName.GITHUB_ACTIONS, EnvName.GITHUB_ACTION, EnvName.GITHUB_Secret}],
    [by |-> {EnvName.BUILDKITE}, provider |-> "buildkite",
     prefixed |-> {EnvName.BUILDKITE_JOB, EnvName.BUILDKITE_API_KEY}]>>

\* the providers detected in an environment
Detected == {p \in DOMAIN Providers : \E n \in Providers[p].by : isSet(arg, n)}

\* the explored names that hold PASS, TOKEN, SECRET or KEY in some case
Sensitive ==
  {EnvName.CIRCLE_TOKEN, EnvName.CI_bypass, EnvName.GITHUB_Secret, EnvName.BUILDKITE_API_KEY}

\* C24: getCIEnv returns the first provider detected in the order CircleCI,
\* GitLab, GitHub, Buildkite; every variable of ciEnv is a variable of the
\* environment, with its value, whose name starts with that provider's
\* prefix and holds none of PASS, TOKEN, SECRET and KEY in any case; when no
\* provider is detected it throws and returns nothing.
C24_OnlyUnsuspectedProviderVars ==
  ret.status # "" =>
    IF Detected = {}
    THEN ret.status = "thrown" /\ DOMAIN ret.ciEnv = {}
    ELSE /\ ret.status = "returned"
         /\ \E p \in Detected :
              /\ \A q \in Detected : p <= q
              /\ ret.provider = Providers[p].provider
              /\ DOMAIN ret.ciEnv \subseteq (Providers[p].prefixed \cap DOMAIN arg) \ Sensitive
              /\ \A k \in DOMAIN ret.ciEnv : ret.ciEnv[k] = arg[k]

\* GitLab and Buildkite are detected, CircleCI is set but empty: the
\* provider is gitlab, and of CI_JOB_ID, CI_bypass, ci_JOB and BUILDKITE_JOB
\* only CI_JOB_ID is returned
C24_Witness ==
  /\ ret.status = "returned"
  /\ ret.provider = "gitlab"
  /\ EnvName.CIRCLECI \in DOMAIN arg /\ arg[EnvName.CIRCLECI] = ""
  /\ isSet(arg, EnvName.BUILDKITE)
  /\ {EnvName.CI_JOB_ID, EnvName.CI_bypass, EnvName.ci_JOB, EnvName.BUILDKITE_JOB}
       \subseteq DOMAIN arg
  /\ DOMAIN ret.ciEnv = {EnvName.CI_JOB_ID}

----------------------------------------------------------------------------
(* AppUploadReporter of reporters/appUpload.ts (lines 10-70). ret is the   *)
(* reporter and what it has done: spinner is this.spinner, the number of   *)
(* an ora object or NoSpinner; spinners tells of every ora object made, in *)
(* the order they were made, whether it is spinning; events are the calls  *)
(* made on the ora objects and on stdout, in order; history holds, for     *)
(* each method called on the reporter, the method and the reporter as the  *)
(* method left it. The methods are called in any order, MaxOperations      *)
(* times at most.                                                          *)

MaxOperations == 4

\* this.spinner is undefined
NoSpinner == 0

\* the variant of this.spinner?.stop() that leaves the spinner spinning
stopSpinnerForgotten(this) == this

\* this.spinner?.stop(): nothing is called when this.spinner is undefined
stopSpinner(this) ==
  IF this.spinner = NoSpinner THEN this
  ELSE [this EXCEPT
          !.spinners[this.spinner] = "stopped",
          !.events = Append(@, [call |-> "stop", spinner |-> this.spinner])]

\* this.write(message)
write(this) ==
  [this EXCEPT !.events = Append(@, [call |-> "write", spinner |-> NoSpinner])]

\* the method has returned: the reporter as it left it joins the history
Returns(method, this) ==
  /\ fn = "AppUploadReporter"
  /\ Len(ret.history) < MaxOperations
  /\ ret' = [this EXCEPT
               !.history = Append(@, [method |-> method, spinner |-> this.spinner,
                                      spinners |-> this.spinners])]
  /\ UNCHANGED <<fn, arg, runVars>>

\* lines 15-18: a reporter as constructed
ReporterInit ==
  /\ RunIdle
  /\ fn = "AppUploadReporter"
  /\ arg = <<>>
  /\ ret = [spinner |-> NoSpinner, spinners |-> <<>>, events |-> <<>>, history |-> <<>>]

\* lines 20-23
start == Returns("start", write(write(ret)))

\* lines 25-33
renderProgress ==
  LET stopped == stopSpinner(ret)
      made == Len(stopped.spinners) + 1
  IN Returns("renderProgress",
             [stopped EXCEPT
                !.spinner = made,
                !.spinners = Append(@, "spinning"),
                !.events = Append(@, [call |-> "start", spinner |-> made])])

\* lines 35-42: this.endRendering(), then this.write(...)
reportSuccess ==
  Returns("reportSuccess", write([stopSpinner(ret) EXCEPT !.spinner = NoSpinner]))

\* lines 44-49: this.endRendering(), then this.write(...)
reportFailure ==
  Returns("reportFailure", write([stopSpinner(ret) EXCEPT !.spinner = NoSpinner]))

\* lines 51-54: this.spinner?.stop(), then delete this.spinner
endRendering == Returns("endRendering", [stopSpinner(ret) EXCEPT !.spinner = NoSpinner])

SpecReporter ==
  ReporterInit
  /\ [][start \/ renderProgress \/ reportSuccess \/ reportFailure \/ endRendering]_vars

\* the ora objects that are spinning
Spinning(spinners) == {k \in DOMAIN spinners : spinners[k] = "spinning"}

\* the positions of the calls of a kind on an ora object
EventsOf(call, k) == {e \in DOMAIN ret.events : ret.events[e] = [call |-> call, spinner |-> k]}

\* C25: whatever methods were called on the reporter, at most one spinner is
\* spinning, and it is this.spinner; every spinner made before the one
\* renderProgress starts was stopped before that start; after reportSuccess,
\* reportFailure and endRendering no spinner is spinning and this.spinner is
\* undefined; endRendering after endRendering, and endRendering on a reporter
\* that never had a spinner, changes nothing and calls nothing.
C25_AtMostOneSpinner ==
  /\ Cardinality(Spinning(ret.spinners)) <= 1
  /\ Spinning(ret.spinners) \subseteq {ret.spinner}
  /\ \A i \in DOMAIN ret.history :
       LET h == ret.history[i]
       IN /\ Cardinality(Spinning(h.spinners)) <= 1
          /\ h.method = "renderProgress" =>
               /\ h.spinner = Len(h.spinners)
               /\ Spinning(h.spinners) = {h.spinner}
          /\ h.method \in {"reportSuccess", "reportFailure", "endRendering"} =>
               /\ Spinning(h.spinners) = {}
               /\ h.spinner = NoSpinner
          /\ (h.method = "endRendering" /\ i > 1 /\ ret.history[i - 1].method = "endRendering") =>
               /\ h.spinner = ret.history[i - 1].spinner
               /\ h.spinners = ret.history[i - 1].spinners
          /\ (h.method = "endRendering" /\ h.spinners = <<>>) => h.spinner = NoSpinner
  /\ \A k \in DOMAIN ret.spinners :
       /\ Cardinality(EventsOf("start", k)) = 1
       /\ Cardinality(EventsOf("stop", k)) <= 1
       /\ \A e \in EventsOf("start", k), j \in 1..(k - 1) :
            \E d \in EventsOf("stop", j) : d < e
  /\ (\A i \in DOMAIN ret.history : ret.history[i].method = "endRendering") => ret.events = <<>>

\* renderProgress twice, then endRendering twice: two spinners were made,
\* the first stopped before the second started, and none is spinning
C25_Witness ==
  /\ [i \in DOMAIN ret.history |-> ret.history[i].method]
       = <<"renderProgress", "renderProgress", "endRendering", "endRendering">>
  /\ ret.spinners = <<"stopped", "stopped">>
  /\ ret.spinner = NoSpinner
  /\ [e \in DOMAIN ret.events |-> ret.events[e].call] = <<"start", "stop", "start", "stop">>

====
